---- MODULE Spec2Model ----
(***************************************************************************)
(* A model of the core of the rchess engine: the bitboard Position with    *)
(* make_move / unmake_move / legal_move (src/src/position/mod.rs) and the  *)
(* staged OrderedMoves iterator (src/engine2/src/ordering.rs).             *)
(*                                                                         *)
(* A Bitboard (a u64 whose bit i stands for square i) is modelled as the   *)
(* set of its set bits, a subset of 0..63: |, &, ^ and ! are union,        *)
(* intersection, symmetric difference and complement in 0..63.             *)
(***************************************************************************)
EXTENDS Integers, Sequences, FiniteSets, TLC

VARIABLES
    pos,               \* the Position (all its fields, as a record)
    debug_assertions,  \* the build: TRUE when debug_assert!s are compiled in
    panicked,          \* TRUE once a call has panicked (the thread is gone)
    shadow,            \* observer: the Positions before each move still on the history
    last,              \* observer: the last call on the Position and what it returned
    om,                \* the OrderedMoves (buf, segment_start, phase)
    loader,            \* the Loader handed to load_next_phase: what its hooks push
    walk,              \* observer of the walk over the OrderedMoves
    engine,            \* the Engine worker: its position, and what it is doing
    rx,                \* the channel of commands from the front-end to the worker
    tx,                \* the responses sent by the command handled last
    bitboard           \* a Bitboard being iterated, and the observer of its items

vars == <<pos, debug_assertions, panicked, shadow, last, om, loader, walk, engine, rx, tx,
         bitboard>>

posVars == <<pos, debug_assertions, panicked, shadow, last>>
omVars == <<om, loader, walk>>
engVars == <<engine, rx, tx>>
bbVars == <<bitboard>>

\* ------------------------------------------------------------------ bounds

\* The longest history (plies made and not unmade) the model explores.
MaxPly == 2

\* ------------------------------------------------------- squares, players

Squares == 0..63
file_of_sq(s) == s % 8
rank_idx_of_sq(s) == s \div 8
SqAt(f, r) == 8 * r + f

A1 == 0
D1 == 3
F1 == 5
H1 == 7

Players == {"White", "Black"}
other_player(pl) == IF pl = "White" THEN "Black" ELSE "White"

\* sq ^ (player * 56): flips the rank for Black.
relative_square(pl, sq) ==
    IF pl = "White" THEN sq ELSE SqAt(file_of_sq(sq), 7 - rank_idx_of_sq(sq))

pawn_push(pl) == IF pl = "White" THEN 8 ELSE -8

relative_rank(pl, rank) == IF pl = "White" THEN rank ELSE 7 - rank

\* The bitwise exclusive or of two u8 values below 64.
BitXor(a, b) ==
    LET bit(x, i) == (x \div (2 ^ i)) % 2
        term(i) == IF bit(a, i) /= bit(b, i) THEN 2 ^ i ELSE 0
    IN  term(0) + term(1) + term(2) + term(3) + term(4) + term(5)

\* --------------------------------------------------------------- bitboards

EmptyBB == {}
bb_xor(a, b) == (a \ b) \cup (b \ a)
bb_not(a) == Squares \ a
to_bb(sq) == {sq}
popcnt(bb) == Cardinality(bb)
more_than_one(bb) == Cardinality(bb) > 1
\* trailing_zeros: the least set bit, 64 for the empty word.
bsf(bb) == IF bb = {} THEN 64 ELSE CHOOSE s \in bb : \A t \in bb : s <= t

\* self - 1 on the u64: the least set bit goes and every bit below it comes,
\* the empty word wrapping to all ones.
bb_sub_one(bb) ==
    IF bb = {}
    THEN Squares
    ELSE (bb \ {bsf(bb)}) \cup {s \in Squares : s < bsf(bb)}

bb_and(a, b) == a \cap b

\* toggle_lsb with the greatest set bit going instead of the least.
toggle_msb(bb) == bb \ {s \in bb : \A t \in bb : t <= s}

\* toggle_lsb: self &= self - 1.
toggle_lsb(bb) == bb_and(bb, bb_sub_one(bb))

\* Iterator::next for Bitboard: None (<< >>) when bsf gives 64, else the
\* least set bit, which is cleared from the iterated word.
Bitboard_next(bb) ==
    IF bsf(bb) = 64
    THEN [bb |-> bb, ret |-> << >>]
    ELSE [bb |-> toggle_lsb(bb), ret |-> <<bsf(bb)>>]

\* No Bitboard is being iterated.
BitboardIdle == bitboard = [orig |-> {}, it |-> {}, yields |-> << >>, ended |-> FALSE]

\* ------------------------------------------------------------------ pieces

PieceTypes == {"Pawn", "Knight", "Bishop", "Rook", "Queen", "King"}

\* Piece::make without the arms for PieceType::None.
Piece_make_coloured_none(pl, ty) == pl \o ty

Piece_make(pl, ty) ==
    IF ty = "None" THEN "None" ELSE pl \o ty

Pieces == {Piece_make(pl, ty) : pl \in Players, ty \in PieceTypes}

type_of(piece) ==
    CASE piece = "None" -> "None"
      [] piece \in {"WhitePawn", "BlackPawn"} -> "Pawn"
      [] piece \in {"WhiteKnight", "BlackKnight"} -> "Knight"
      [] piece \in {"WhiteBishop", "BlackBishop"} -> "Bishop"
      [] piece \in {"WhiteRook", "BlackRook"} -> "Rook"
      [] piece \in {"WhiteQueen", "BlackQueen"} -> "Queen"
      [] piece \in {"WhiteKing", "BlackKing"} -> "King"

\* Piece::player panics on Piece::None: "panic" stands for the call that
\* does not return.
player(piece) ==
    CASE piece \in {"WhitePawn", "WhiteKnight", "WhiteBishop",
                    "WhiteRook", "WhiteQueen", "WhiteKing"} -> "White"
      [] piece \in {"BlackPawn", "BlackKnight", "BlackBishop",
                    "BlackRook", "BlackQueen", "BlackKing"} -> "Black"
      [] piece = "None" -> "panic"

\* The Position field that holds the bitboard of a piece.
piece_field(piece) ==
    CASE piece = "WhitePawn" -> "white_pawns"
      [] piece = "WhiteKnight" -> "white_knights"
      [] piece = "WhiteBishop" -> "white_bishops"
      [] piece = "WhiteRook" -> "white_rooks"
      [] piece = "WhiteQueen" -> "white_queens"
      [] piece = "WhiteKing" -> "white_king"
      [] piece = "BlackPawn" -> "black_pawns"
      [] piece = "BlackKnight" -> "black_knights"
      [] piece = "BlackBishop" -> "black_bishops"
      [] piece = "BlackRook" -> "black_rooks"
      [] piece = "BlackQueen" -> "black_queens"
      [] piece = "BlackKing" -> "black_king"

player_field(pl) == IF pl = "White" THEN "white_pieces" ELSE "black_pieces"
count_field(pl) == IF pl = "White" THEN "white_piece_count" ELSE "black_piece_count"

\* ------------------------------------------------ precomputed attack tables

\* The eight directions as <<file step, rank step>>: 1..4 rook, 5..8 bishop;
\* each odd direction is followed by its opposite.
DIRS == << <<1, 0>>, <<-1, 0>>, <<0, 1>>, <<0, -1>>,
           <<1, 1>>, <<-1, -1>>, <<1, -1>>, <<-1, 1>> >>
RookDirs == 1..4
BishopDirs == 5..8

OnBoard(f, r) == f \in 0..7 /\ r \in 0..7

\* The squares from s in direction d, nearest first, up to the edge.
RayLen(s, d) ==
    LET f == file_of_sq(s)
        r == rank_idx_of_sq(s)
    IN  Cardinality({k \in 1..7 : OnBoard(f + k * DIRS[d][1], r + k * DIRS[d][2])})

RAYS ==
    [s \in Squares |->
        [d \in 1..8 |->
            [k \in 1..RayLen(s, d) |->
                SqAt(file_of_sq(s) + k * DIRS[d][1],
                     rank_idx_of_sq(s) + k * DIRS[d][2])]]]

Leaper(s, steps) ==
    {SqAt(file_of_sq(s) + st[1], rank_idx_of_sq(s) + st[2]) :
        st \in {x \in steps : OnBoard(file_of_sq(s) + x[1], rank_idx_of_sq(s) + x[2])}}

KNIGHT_TABLE ==
    [s \in Squares |->
        Leaper(s, {<<1, 2>>, <<2, 1>>, <<2, -1>>, <<1, -2>>,
                   <<-1, -2>>, <<-2, -1>>, <<-2, 1>>, <<-1, 2>>})]

KING_TABLE ==
    [s \in Squares |->
        Leaper(s, {<<1, 0>>, <<-1, 0>>, <<0, 1>>, <<0, -1>>,
                   <<1, 1>>, <<1, -1>>, <<-1, 1>>, <<-1, -1>>})]

PAWN_TABLE ==
    [pl \in Players |->
        [s \in Squares |->
            IF pl = "White" THEN Leaper(s, {<<-1, 1>>, <<1, 1>>})
                            ELSE Leaper(s, {<<-1, -1>>, <<1, -1>>})]]

knight_moves(sq) == KNIGHT_TABLE[sq]
king_moves(sq) == KING_TABLE[sq]
pawn_attacks_from(sq, pl) == PAWN_TABLE[pl][sq]

\* The squares of ray r a slider reaches under occupancy occ: every square up
\* to and including the first occupied one.
SlideAlong(occ, r) ==
    {r[j] : j \in {i \in DOMAIN r : \A k \in 1..(i - 1) : r[k] \notin occ}}

rook_moves(occ, sq) == UNION {SlideAlong(occ, RAYS[sq][d]) : d \in RookDirs}
bishop_moves(occ, sq) == UNION {SlideAlong(occ, RAYS[sq][d]) : d \in BishopDirs}

\* The squares strictly between two squares of one rank, file or diagonal.
between_bb(a, b) ==
    UNION {{RAYS[a][d][k] : k \in {i \in DOMAIN RAYS[a][d] :
                                      \E j \in DOMAIN RAYS[a][d] :
                                          i < j /\ RAYS[a][d][j] = b}} : d \in 1..8}

Opposite(d) == IF d % 2 = 1 THEN d + 1 ELSE d - 1
RaySet(s, d) == {RAYS[s][d][k] : k \in DOMAIN RAYS[s][d]}

\* The whole line through a and b (empty when they share none).
line_bb(a, b) ==
    UNION {IF b \in RaySet(a, d)
           THEN {a} \cup RaySet(a, d) \cup RaySet(a, Opposite(d))
           ELSE {} : d \in 1..8}

aligned(a, b, c) == c \in line_bb(a, b)

\* ------------------------------------------------------------------- moves

\* A Move: origin, destination, special kind and promotion piece type.
MoveKinds == {"Normal", "EnPassant", "Castling", "Promotion"}
PROMO_PIECES == {"Knight", "Bishop", "Rook", "Queen"}

Mv(o, d, k, pr) == [orig |-> o, dest |-> d, kind |-> k, promo |-> pr]

is_en_passant(mov) == mov.kind = "EnPassant"
is_castle(mov) == mov.kind = "Castling"
is_promo(mov) == mov.kind = "Promotion"
\* Option<PieceType>: "None" stands for Option::None.
promo_piece_type(mov) == IF mov.kind = "Promotion" THEN mov.promo ELSE "None"
\* The two sentinel moves: origin and destination coincide.
is_none(mov) == mov.orig = 0 /\ mov.dest = 0
is_null(mov) == mov.orig = mov.dest /\ mov.orig /= 0

\* ---------------------------------------------------------------- Position

piece_at_sq(p, sq) == p.board[sq]
turn(p) == p.turn
occupied(p) == bb_not(p.no_piece)
get_occupied_player(p, pl) == IF pl = "White" THEN p.white_pieces ELSE p.black_pieces

piece_bb(p, pl, ty) ==
    IF ty = "None" THEN Squares ELSE p[piece_field(Piece_make(pl, ty))]

piece_bb_both_players(p, ty) ==
    IF ty = "None" THEN {} ELSE piece_bb(p, "White", ty) \cup piece_bb(p, "Black", ty)

piece_two_bb(p, ty1, ty2, pl) == piece_bb(p, pl, ty1) \cup piece_bb(p, pl, ty2)

piece_two_bb_both_players(p, ty1, ty2) ==
    piece_bb_both_players(p, ty1) \cup piece_bb_both_players(p, ty2)

sliding_piece_bb(p, pl) == piece_two_bb(p, "Queen", "Rook", pl)
diagonal_piece_bb(p, pl) == piece_two_bb(p, "Queen", "Bishop", pl)

king_sq(p, pl) == bsf(piece_bb(p, pl, "King"))

\* Every piece, of either player, that attacks sq under the occupancy occ.
attackers_to(p, sq, occ) ==
    (pawn_attacks_from(sq, "Black") \cap piece_bb(p, "White", "Pawn"))
    \cup (pawn_attacks_from(sq, "White") \cap piece_bb(p, "Black", "Pawn"))
    \cup (knight_moves(sq) \cap piece_bb_both_players(p, "Knight"))
    \cup (rook_moves(occ, sq)
            \cap (p.white_rooks \cup p.black_rooks \cup p.white_queens \cup p.black_queens))
    \cup (bishop_moves(occ, sq)
            \cap (p.white_bishops \cup p.black_bishops \cup p.white_queens \cup p.black_queens))
    \cup (king_moves(sq) \cap (p.white_king \cup p.black_king))

\* <<blockers, pinners>> of square sq against the given sliders.
slider_blockers(p, sliders, sq) ==
    LET attackers ==
            sliders \cap
              ((rook_moves({}, sq) \cap piece_two_bb_both_players(p, "Rook", "Queen"))
               \cup (bishop_moves({}, sq)
                       \cap piece_two_bb_both_players(p, "Bishop", "Queen")))
        player_at == player(piece_at_sq(p, sq))
        other_occ == get_occupied_player(p, player_at)
        bbOf(a) == between_bb(sq, a) \cap occupied(p)
        blocking == {a \in attackers : bbOf(a) /= {} /\ ~more_than_one(bbOf(a))}
    IN  << UNION {bbOf(a) : a \in blocking},
           {a \in blocking : bbOf(a) \cap other_occ /= {}} >>

\* State::from_position: the checkers of the side to move and, per player, the
\* blockers of and the pinners against that player's king.
State_from_position(p) ==
    LET us == p.turn
        them == other_player(us)
        bp(pl) == slider_blockers(p, get_occupied_player(p, other_player(pl)),
                                  king_sq(p, pl))
    IN  [checkers |-> attackers_to(p, king_sq(p, us), occupied(p))
                        \cap get_occupied_player(p, them),
         blockers |-> [pl \in Players |-> bp(pl)[1]],
         pinners |-> [pl \in Players |-> bp(pl)[2]]]

checkers(p) == p.state.checkers
in_check(p) == checkers(p) /= {}
pinned_pieces(p, pl) == p.state.blockers[pl] \cap get_occupied_player(p, pl)

\* Board::remove and Board::place on the mailbox.
board_remove(b, sq) == [b EXCEPT ![sq] = "None"]
board_place(b, sq, pl, ty) == [b EXCEPT ![sq] = Piece_make(pl, ty)]

\* move_piece_c without the update of the colour bitboard.
move_piece_c_no_colour(p, piece, from, to) ==
    LET comb_bb == to_bb(from) \cup to_bb(to)
        pl == player(piece)
        ty == type_of(piece)
    IN  [p EXCEPT !.no_piece = bb_xor(@, comb_bb),
                  ![piece_field(piece)] = bb_xor(@, comb_bb),
                  !.board = board_place(board_remove(@, from), to, pl, ty)]

move_piece_c(p, piece, from, to) ==
    LET comb_bb == to_bb(from) \cup to_bb(to)
        pl == player(piece)
        ty == type_of(piece)
    IN  [p EXCEPT !.no_piece = bb_xor(@, comb_bb),
                  ![piece_field(piece)] = bb_xor(@, comb_bb),
                  ![player_field(pl)] = bb_xor(@, comb_bb),
                  !.board = board_place(board_remove(@, from), to, pl, ty)]

remove_piece_c(p, piece, square) ==
    LET bb == to_bb(square)
        pl == player(piece)
    IN  [p EXCEPT !.no_piece = bb_xor(@, bb),
                  ![piece_field(piece)] = bb_xor(@, bb),
                  ![player_field(pl)] = bb_xor(@, bb),
                  ![count_field(pl)] = @ - 1,
                  !.board = board_remove(@, square)]

put_piece_c(p, piece, square) ==
    LET bb == to_bb(square)
        pl == player(piece)
        ty == type_of(piece)
    IN  [p EXCEPT !.no_piece = bb_xor(@, bb),
                  ![piece_field(piece)] = bb_xor(@, bb),
                  ![player_field(pl)] = bb_xor(@, bb),
                  ![count_field(pl)] = @ + 1,
                  !.board = board_place(@, square, pl, ty)]

\* The rook's origin and destination of a castling move of the king.
castling_rook_squares(pl, k_orig, k_dest) ==
    IF k_orig < k_dest
    THEN [r_orig |-> relative_square(pl, H1), r_dest |-> relative_square(pl, F1)]
    ELSE [r_orig |-> relative_square(pl, A1), r_dest |-> relative_square(pl, D1)]

\* apply_castling taking the king-side rook whichever way the king goes.
apply_castling_kingside_rook(p, pl, k_orig, k_dest) ==
    move_piece_c(move_piece_c(p, Piece_make(pl, "King"), k_orig, k_dest),
                 Piece_make(pl, "Rook"), relative_square(pl, H1), relative_square(pl, F1))

apply_castling(p, pl, k_orig, k_dest) ==
    LET r == castling_rook_squares(pl, k_orig, k_dest)
    IN  move_piece_c(move_piece_c(p, Piece_make(pl, "King"), k_orig, k_dest),
                     Piece_make(pl, "Rook"), r.r_orig, r.r_dest)

undo_castling(p, pl, k_orig, k_dest) ==
    LET r == castling_rook_squares(pl, k_orig, k_dest)
    IN  move_piece_c(move_piece_c(p, Piece_make(pl, "King"), k_dest, k_orig),
                     Piece_make(pl, "Rook"), r.r_dest, r.r_orig)

\* CastlingRights::update(sq): the rights tied to the square a move leaves.
E1 == 4
A8 == 56
E8 == 60
H8 == 63

castling_update(cr, sq) ==
    [white_kingside |-> cr.white_kingside /\ sq \notin {E1, H1},
     white_queenside |-> cr.white_queenside /\ sq \notin {E1, A1},
     black_kingside |-> cr.black_kingside /\ sq \notin {E8, H8},
     black_queenside |-> cr.black_queenside /\ sq \notin {E8, A8}]

\* Move::to_undoable: what unmake_move needs to roll the move back.
to_undoable(mov, p) ==
    [orig |-> mov.orig,
     dest |-> mov.dest,
     kind |-> mov.kind,
     promo_piece_type |-> promo_piece_type(mov),
     captured |-> IF is_en_passant(mov) THEN "Pawn"
                  ELSE type_of(piece_at_sq(p, mov.dest)),
     prev_ep_square |-> p.ep_square,
     prev_castling_rights |-> p.castling_rights,
     prev_half_move_clock |-> p.half_move_clock,
     state |-> p.state]

\* --------------------------------------------------------------- make_move

\* The position after make_move's first statements: the undoable move pushed
\* on the history and the en passant square reset.
mm_pushed(p, mov) ==
    [p EXCEPT !.history = Append(@, to_undoable(mov, p)),
              !.ep_square = {}]

mm_captured_piece(p, mov) ==
    IF is_en_passant(mov)
    THEN Piece_make(other_player(p.turn), "Pawn")
    ELSE piece_at_sq(p, mov.dest)

\* mm_clocks with the rights worked out from all four rights, not from the
\* rights the position had.
mm_clocks_rights_afresh(p, mov) ==
    LET p1 == mm_pushed(p, mov)
        all == [white_kingside |-> TRUE, white_queenside |-> TRUE,
                black_kingside |-> TRUE, black_queenside |-> TRUE]
    IN  [p1 EXCEPT !.half_move_clock = @ + 1,
                   !.move_number = IF p.turn = "Black" THEN @ + 1 ELSE @,
                   !.castling_rights = castling_update(all, mov.orig)]

\* ... after the clocks and the castling rights.
mm_clocks(p, mov) ==
    LET p1 == mm_pushed(p, mov)
    IN  [p1 EXCEPT !.half_move_clock = @ + 1,
                   !.move_number = IF p.turn = "Black" THEN @ + 1 ELSE @,
                   !.castling_rights = castling_update(@, mov.orig)]

\* The square the captured piece stands on.
mm_cap_sq(p, mov) ==
    IF type_of(mm_captured_piece(p, mov)) = "Pawn" /\ is_en_passant(mov)
    THEN (IF p.turn = "White" THEN mov.dest - 8 ELSE mov.dest + 8)
    ELSE mov.dest

\* ... after the castling or the capture, and the displacement of the mover.
mm_moved(p, mov) ==
    LET us == p.turn
        moving_piece == piece_at_sq(p, mov.orig)
        captured_piece == mm_captured_piece(p, mov)
        p3 == mm_clocks(p, mov)
        p4 == IF is_castle(mov)
              THEN apply_castling(p3, us, mov.orig, mov.dest)
              ELSE IF captured_piece /= "None"
                   THEN [remove_piece_c(p3, captured_piece, mm_cap_sq(p, mov))
                            EXCEPT !.half_move_clock = 0]
                   ELSE p3
    IN  IF ~is_castle(mov)
        THEN move_piece_c(p4, moving_piece, mov.orig, mov.dest)
        ELSE p4

\* The pawn book-keeping setting the en passant square after every double
\* push, whether or not an enemy pawn can capture there.
mm_pawn_any_double_push(p, mov) ==
    LET us == p.turn
        moving_piece == piece_at_sq(p, mov.orig)
        p5 == mm_moved(p, mov)
    IN  IF type_of(moving_piece) = "Pawn"
        THEN [(IF BitXor(mov.dest, mov.orig) = 16
               THEN [p5 EXCEPT !.ep_square = {mov.dest - pawn_push(us)}]
               ELSE IF promo_piece_type(mov) /= "None"
                    THEN put_piece_c(remove_piece_c(p5, moving_piece, mov.dest),
                                     Piece_make(us, promo_piece_type(mov)), mov.dest)
                    ELSE p5)
              EXCEPT !.half_move_clock = 0]
        ELSE p5

\* ... after the extra book-keeping for pawn moves.
mm_pawn(p, mov) ==
    LET us == p.turn
        them == other_player(us)
        moving_piece == piece_at_sq(p, mov.orig)
        p5 == mm_moved(p, mov)
        poss_ep == mov.dest - pawn_push(us)
    IN  IF type_of(moving_piece) = "Pawn"
        THEN [(IF BitXor(mov.dest, mov.orig) = 16
               THEN (IF (pawn_attacks_from(poss_ep, us)
                           \cap piece_bb(p5, them, "Pawn")) /= {}
                     THEN [p5 EXCEPT !.ep_square = {poss_ep}]
                     ELSE p5)
               ELSE IF promo_piece_type(mov) /= "None"
                    THEN put_piece_c(remove_piece_c(p5, moving_piece, mov.dest),
                                     Piece_make(us, promo_piece_type(mov)), mov.dest)
                    ELSE p5)
              EXCEPT !.half_move_clock = 0]
        ELSE p5

\* make_move that flips the turn and leaves the cached state as it was.
mm_done_stale_state(p, mov) ==
    [mm_pawn(p, mov) EXCEPT !.turn = other_player(p.turn)]

\* The whole of make_move when no assertion fails.
mm_done(p, mov) ==
    LET p6 == [mm_pawn(p, mov) EXCEPT !.turn = other_player(p.turn)]
    IN  [p6 EXCEPT !.state = State_from_position(p6)]

\* make_move's debug assertions, each evaluated where the code states it.
assert_not_null(p, mov) == mov.orig /= mov.dest

assert_mover(p, mov) ==
    /\ piece_at_sq(p, mov.orig) /= "None"
    /\ player(piece_at_sq(p, mov.orig)) = p.turn

assert_castle(p, mov) ==
    /\ type_of(piece_at_sq(p, mov.orig)) = "King"
    /\ type_of(mm_captured_piece(p, mov)) = "None"

\* The first of them reads self.ep_square (unwrap) AFTER make_move reset it.
assert_en_passant(p, mov) ==
    LET p3 == mm_clocks(p, mov)
        us == p.turn
    IN  /\ p3.ep_square /= {}
        /\ mov.dest \in p3.ep_square
        /\ type_of(piece_at_sq(p3, mov.orig)) = "Pawn"
        /\ relative_rank(us, 5) = rank_idx_of_sq(mov.dest)
        /\ piece_at_sq(p3, mov.dest) = "None"
        /\ piece_at_sq(p3, mm_cap_sq(p, mov)) = Piece_make(other_player(us), "Pawn")

\* make_move(mov) in a build with (dbg) or without debug assertions: the
\* position it leaves, and whether it panicked on the way.
make_move(p, mov, dbg) ==
    IF dbg /\ ~assert_not_null(p, mov)
    THEN [pos |-> p, panicked |-> TRUE]
    ELSE IF dbg /\ ~assert_mover(p, mov)
    THEN [pos |-> mm_pushed(p, mov), panicked |-> TRUE]
    ELSE IF dbg /\ is_castle(mov) /\ ~assert_castle(p, mov)
    THEN [pos |-> mm_clocks(p, mov), panicked |-> TRUE]
    ELSE IF /\ dbg
            /\ ~is_castle(mov)
            /\ mm_captured_piece(p, mov) /= "None"
            /\ type_of(mm_captured_piece(p, mov)) = "Pawn"
            /\ is_en_passant(mov)
            /\ ~assert_en_passant(p, mov)
    THEN [pos |-> mm_clocks(p, mov), panicked |-> TRUE]
    ELSE [pos |-> mm_done(p, mov), panicked |-> FALSE]

\* ------------------------------------------------------------- unmake_move

\* unmake_move's debug assertions on the popped move um: the origin square is
\* empty unless the move castled, and a promotion left its piece on dest.
assert_unmake(p, um) ==
    /\ piece_at_sq(p, um.orig) = "None" \/ um.kind = "Castling"
    /\ um.kind = "Promotion" => type_of(piece_at_sq(p, um.dest)) = um.promo_piece_type

\* The body of unmake_move leaving the promoted piece where a pawn promoted.
um_undo_keep_promoted(p, um) ==
    LET p0 == [p EXCEPT !.history = SubSeq(@, 1, Len(@) - 1),
                        !.turn = other_player(@)]
        us == p0.turn
        piece_on0 == piece_at_sq(p0, um.dest)
        p1 == p0
        piece_on == piece_on0
        cap_sq == IF um.kind = "EnPassant"
                  THEN (IF us = "White" THEN um.dest - 8 ELSE um.dest + 8)
                  ELSE um.dest
        p2 == IF um.kind = "Castling"
              THEN undo_castling(p1, us, um.orig, um.dest)
              ELSE LET p2a == move_piece_c(p1, piece_on, um.dest, um.orig)
                   IN  IF um.captured /= "None"
                       THEN put_piece_c(p2a, Piece_make(other_player(us), um.captured),
                                        cap_sq)
                       ELSE p2a
    IN  [p2 EXCEPT !.half_move_clock = um.prev_half_move_clock,
                   !.ep_square = um.prev_ep_square,
                   !.castling_rights = um.prev_castling_rights,
                   !.state = um.state,
                   !.move_number = IF us = "Black" THEN @ - 1 ELSE @]

\* The body of unmake_move for a popped undoable move um.
um_undo(p, um) ==
    LET p0 == [p EXCEPT !.history = SubSeq(@, 1, Len(@) - 1),
                        !.turn = other_player(@)]
        us == p0.turn
        piece_on0 == piece_at_sq(p0, um.dest)
        p1 == IF um.kind = "Promotion"
              THEN put_piece_c(remove_piece_c(p0, piece_on0, um.dest),
                               Piece_make(us, "Pawn"), um.dest)
              ELSE p0
        piece_on == IF um.kind = "Promotion" THEN Piece_make(us, "Pawn") ELSE piece_on0
        cap_sq == IF um.kind = "EnPassant"
                  THEN (IF us = "White" THEN um.dest - 8 ELSE um.dest + 8)
                  ELSE um.dest
        p2 == IF um.kind = "Castling"
              THEN undo_castling(p1, us, um.orig, um.dest)
              ELSE LET p2a == move_piece_c(p1, piece_on, um.dest, um.orig)
                   IN  IF um.captured /= "None"
                       THEN put_piece_c(p2a, Piece_make(other_player(us), um.captured),
                                        cap_sq)
                       ELSE p2a
    IN  [p2 EXCEPT !.half_move_clock = um.prev_half_move_clock,
                   !.ep_square = um.prev_ep_square,
                   !.castling_rights = um.prev_castling_rights,
                   !.state = um.state,
                   !.move_number = IF us = "Black" THEN @ - 1 ELSE @]

\* unmake_move flipping the turn before it looks at the history.
unmake_move_flip_first(p) ==
    IF p.history /= << >>
    THEN [pos |-> um_undo(p, p.history[Len(p.history)]),
          ret |-> << p.history[Len(p.history)] >>]
    ELSE [pos |-> [p EXCEPT !.turn = other_player(@)], ret |-> << >>]

\* unmake_move: the position it leaves and what it returns ("None", or the
\* popped undoable move in a one-element sequence).
unmake_move(p) ==
    IF p.history /= << >>
    THEN [pos |-> um_undo(p, p.history[Len(p.history)]),
          ret |-> << p.history[Len(p.history)] >>]
    ELSE [pos |-> p, ret |-> << >>]

\* -------------------------------------------------------------- legal_move

\* legal_move testing an en passant capture on the occupancy before it.
legal_move_ep_occupancy_before(p, mov) ==
    LET us == p.turn
        them == other_player(us)
        orig == mov.orig
        dest == mov.dest
        ksq == king_sq(p, us)
        captured_sq == dest - pawn_push(us)
        ep_occupied == bb_xor(bb_xor(occupied(p), to_bb(orig)), to_bb(captured_sq))
                         \cup to_bb(dest)
        piece == piece_at_sq(p, orig)
    IN  IF is_none(mov) \/ is_null(mov)
        THEN FALSE
        ELSE IF mov.kind = "EnPassant"
        THEN /\ (rook_moves(occupied(p), ksq) \cap sliding_piece_bb(p, them)) = {}
             /\ (bishop_moves(occupied(p), ksq) \cap diagonal_piece_bb(p, them)) = {}
        ELSE IF piece = "None"
        THEN FALSE
        ELSE IF type_of(piece) = "King"
        THEN \/ mov.kind = "Castling"
             \/ (attackers_to(p, dest, occupied(p)) \cap get_occupied_player(p, them)) = {}
        ELSE \/ (pinned_pieces(p, us) \cap to_bb(orig)) = {}
             \/ aligned(orig, dest, ksq)

\* legal_move refusing every move of a pinned piece.
legal_move_pinned_stays(p, mov) ==
    LET us == p.turn
        them == other_player(us)
        orig == mov.orig
        dest == mov.dest
        ksq == king_sq(p, us)
        captured_sq == dest - pawn_push(us)
        ep_occupied == bb_xor(bb_xor(occupied(p), to_bb(orig)), to_bb(captured_sq))
                         \cup to_bb(dest)
        piece == piece_at_sq(p, orig)
    IN  IF is_none(mov) \/ is_null(mov)
        THEN FALSE
        ELSE IF mov.kind = "EnPassant"
        THEN /\ (rook_moves(ep_occupied, ksq) \cap sliding_piece_bb(p, them)) = {}
             /\ (bishop_moves(ep_occupied, ksq) \cap diagonal_piece_bb(p, them)) = {}
        ELSE IF piece = "None"
        THEN FALSE
        ELSE IF type_of(piece) = "King"
        THEN \/ mov.kind = "Castling"
             \/ (attackers_to(p, dest, occupied(p)) \cap get_occupied_player(p, them)) = {}
        ELSE (pinned_pieces(p, us) \cap to_bb(orig)) = {}

legal_move(p, mov) ==
    LET us == p.turn
        them == other_player(us)
        orig == mov.orig
        dest == mov.dest
        ksq == king_sq(p, us)
        captured_sq == dest - pawn_push(us)
        ep_occupied == bb_xor(bb_xor(occupied(p), to_bb(orig)), to_bb(captured_sq))
                         \cup to_bb(dest)
        piece == piece_at_sq(p, orig)
    IN  IF is_none(mov) \/ is_null(mov)
        THEN FALSE
        ELSE IF mov.kind = "EnPassant"
        THEN /\ (rook_moves(ep_occupied, ksq) \cap sliding_piece_bb(p, them)) = {}
             /\ (bishop_moves(ep_occupied, ksq) \cap diagonal_piece_bb(p, them)) = {}
        ELSE IF piece = "None"
        THEN FALSE
        ELSE IF type_of(piece) = "King"
        THEN \/ mov.kind = "Castling"
             \/ (attackers_to(p, dest, occupied(p)) \cap get_occupied_player(p, them)) = {}
        ELSE \/ (pinned_pieces(p, us) \cap to_bb(orig)) = {}
             \/ aligned(orig, dest, ksq)

\* ----------------------------------------------------------------- movegen

\* CASTLING_PATH: the squares between the king and the rook.
castling_path(pl, side) ==
    IF side = "Kingside"
    THEN {relative_square(pl, 5), relative_square(pl, 6)}
    ELSE {relative_square(pl, 1), relative_square(pl, 2), relative_square(pl, 3)}

castle_impeded(p, side) == (castling_path(p.turn, side) \cap occupied(p)) /= {}

can_castle(p, pl, side) ==
    IF pl = "White"
    THEN (IF side = "Kingside" THEN p.castling_rights.white_kingside
                               ELSE p.castling_rights.white_queenside)
    ELSE (IF side = "Kingside" THEN p.castling_rights.black_kingside
                               ELSE p.castling_rights.black_queenside)

\* CASTLING_ROOK_START
castling_rook_square(p, side) ==
    relative_square(p.turn, IF side = "Kingside" THEN H1 ELSE A1)

\* The squares the king passes and lands on.
castling_king_path(pl, side) ==
    IF side = "Kingside"
    THEN {relative_square(pl, 5), relative_square(pl, 6)}
    ELSE {relative_square(pl, 3), relative_square(pl, 2)}

castling_king_dest(pl, side) ==
    relative_square(pl, IF side = "Kingside" THEN 6 ELSE 2)

pawn_moves(p, sq) ==
    LET us == p.turn
        them == other_player(us)
        occ == occupied(p)
        fwd == sq + pawn_push(us)
        dbl == fwd + pawn_push(us)
        last_rank(t) == rank_idx_of_sq(t) = relative_rank(us, 7)
        expand(t) == IF last_rank(t)
                     THEN {Mv(sq, t, "Promotion", pt) : pt \in PROMO_PIECES}
                     ELSE {Mv(sq, t, "Normal", "None")}
        pushes == IF fwd \in Squares /\ fwd \notin occ
                  THEN expand(fwd) \cup
                       (IF rank_idx_of_sq(sq) = relative_rank(us, 1) /\ dbl \notin occ
                        THEN {Mv(sq, dbl, "Normal", "None")} ELSE {})
                  ELSE {}
        captures == UNION {expand(t) : t \in pawn_attacks_from(sq, us)
                                              \cap get_occupied_player(p, them)}
        en_passant == {Mv(sq, t, "EnPassant", "None") :
                          t \in pawn_attacks_from(sq, us) \cap p.ep_square}
    IN  pushes \cup captures \cup en_passant

piece_moves(p, sq) ==
    LET ty == type_of(piece_at_sq(p, sq))
        occ == occupied(p)
        targets == CASE ty = "Knight" -> knight_moves(sq)
                     [] ty = "Bishop" -> bishop_moves(occ, sq)
                     [] ty = "Rook" -> rook_moves(occ, sq)
                     [] ty = "Queen" -> rook_moves(occ, sq) \cup bishop_moves(occ, sq)
                     [] ty = "King" -> king_moves(sq)
    IN  {Mv(sq, t, "Normal", "None") : t \in targets \ get_occupied_player(p, p.turn)}

castling_moves(p) ==
    LET us == p.turn
        them == other_player(us)
        ok(side) ==
            /\ can_castle(p, us, side)
            /\ ~in_check(p)
            /\ ~castle_impeded(p, side)
            /\ piece_at_sq(p, castling_rook_square(p, side)) = Piece_make(us, "Rook")
            /\ piece_at_sq(p, relative_square(us, E1)) = Piece_make(us, "King")
            /\ \A t \in castling_king_path(us, side) :
                 (attackers_to(p, t, occupied(p)) \cap get_occupied_player(p, them)) = {}
    IN  {Mv(relative_square(us, E1), castling_king_dest(us, side), "Castling", "None") :
            side \in {s \in {"Kingside", "Queenside"} : ok(s)}}

\* Every pseudo-legal move of the side to move.
generate_pseudolegal(p) ==
    UNION {IF type_of(piece_at_sq(p, sq)) = "Pawn" THEN pawn_moves(p, sq)
                                                   ELSE piece_moves(p, sq) :
              sq \in get_occupied_player(p, p.turn)}
    \cup castling_moves(p)

\* The mailbox after a move, by the rules of chess.
board_after(b, mov, us) ==
    LET moved == IF mov.kind = "Promotion" THEN Piece_make(us, mov.promo) ELSE b[mov.orig]
        b1 == [b EXCEPT ![mov.orig] = "None", ![mov.dest] = moved]
        r == castling_rook_squares(us, mov.orig, mov.dest)
    IN  CASE mov.kind = "EnPassant" ->
               [b1 EXCEPT ![SqAt(file_of_sq(mov.dest), rank_idx_of_sq(mov.orig))] = "None"]
          [] mov.kind = "Castling" ->
               [b1 EXCEPT ![r.r_orig] = "None", ![r.r_dest] = Piece_make(us, "Rook")]
          [] OTHER -> b1

\* Whether a piece of player by attacks sq on mailbox b, by the rules of chess.
square_attacked(b, sq, by) ==
    LET occ == {s \in Squares : b[s] /= "None"}
    IN  \E t \in occ :
          /\ player(b[t]) = by
          /\ CASE type_of(b[t]) = "Pawn" -> sq \in pawn_attacks_from(t, by)
               [] type_of(b[t]) = "Knight" -> sq \in knight_moves(t)
               [] type_of(b[t]) = "Bishop" -> sq \in bishop_moves(occ, t)
               [] type_of(b[t]) = "Rook" -> sq \in rook_moves(occ, t)
               [] type_of(b[t]) = "Queen" ->
                      sq \in rook_moves(occ, t) \cup bishop_moves(occ, t)
               [] type_of(b[t]) = "King" -> sq \in king_moves(t)

\* Whether the mover's king is attacked once mov is on the board.
leaves_king_attacked(p, mov) ==
    LET us == p.turn
        b == board_after(p.board, mov, us)
        ksq == CHOOSE s \in Squares : b[s] = Piece_make(us, "King")
    IN  square_attacked(b, ksq, other_player(us))

\* The legal moves of the position by the rules of chess.
LegalMoves(p) == {m \in generate_pseudolegal(p) : ~leaves_king_attacked(p, m)}

\* MoveGen::generate_legal: the pseudo-legal moves that pass legal_move.
generate_legal(p) == {m \in generate_pseudolegal(p) : legal_move(p, m)}

\* ------------------------------------------------------- initial positions

NoCastling ==
    [white_kingside |-> FALSE, white_queenside |-> FALSE,
     black_kingside |-> FALSE, black_queenside |-> FALSE]

AllCastling ==
    [white_kingside |-> TRUE, white_queenside |-> TRUE,
     black_kingside |-> TRUE, black_queenside |-> TRUE]

\* Position::from_fen followed by set_state: a position whose bitboards, colour
\* bitboards and piece counts are those of the placement (pairs <<square, piece>>).
Position_new(placement, tn, cr, ep, hmc, mn) ==
    LET b == [s \in Squares |->
                 IF \E x \in placement : x[1] = s
                 THEN (CHOOSE x \in placement : x[1] = s)[2]
                 ELSE "None"]
        on(piece) == {s \in Squares : b[s] = piece}
        of(pl) == {s \in Squares : b[s] /= "None" /\ player(b[s]) = pl}
        p == [board |-> b,
              no_piece |-> on("None"),
              white_pawns |-> on("WhitePawn"),
              white_knights |-> on("WhiteKnight"),
              white_bishops |-> on("WhiteBishop"),
              white_rooks |-> on("WhiteRook"),
              white_queens |-> on("WhiteQueen"),
              white_king |-> on("WhiteKing"),
              black_pawns |-> on("BlackPawn"),
              black_knights |-> on("BlackKnight"),
              black_bishops |-> on("BlackBishop"),
              black_rooks |-> on("BlackRook"),
              black_queens |-> on("BlackQueen"),
              black_king |-> on("BlackKing"),
              white_pieces |-> of("White"),
              black_pieces |-> of("Black"),
              white_piece_count |-> Cardinality(of("White")),
              black_piece_count |-> Cardinality(of("Black")),
              turn |-> tn,
              castling_rights |-> cr,
              ep_square |-> ep,
              half_move_clock |-> hmc,
              move_number |-> mn,
              state |-> [checkers |-> {},
                         blockers |-> [pl \in Players |-> {}],
                         pinners |-> [pl \in Players |-> {}]],
              history |-> << >>]
    IN  [p EXCEPT !.state = State_from_position(p)]

\* r3k2r/8/8/8/8/8/8/R3K2R w KQkq - 0 1
FenCastling ==
    Position_new({<<0, "WhiteRook">>, <<4, "WhiteKing">>, <<7, "WhiteRook">>,
                  <<56, "BlackRook">>, <<60, "BlackKing">>, <<63, "BlackRook">>},
                 "White", AllCastling, {}, 0, 1)

\* 1n6/P7/8/8/8/8/8/k6K w - - 0 1
FenPromotion ==
    Position_new({<<0, "BlackKing">>, <<7, "WhiteKing">>, <<48, "WhitePawn">>,
                  <<57, "BlackKnight">>},
                 "White", NoCastling, {}, 0, 1)

\* 8/8/3p4/KPp4r/1R3p1k/8/4P1P1/8 w - c6 0 1
FenEnPassantPinned ==
    Position_new({<<12, "WhitePawn">>, <<14, "WhitePawn">>, <<25, "WhiteRook">>,
                  <<29, "BlackPawn">>, <<31, "BlackKing">>, <<32, "WhiteKing">>,
                  <<33, "WhitePawn">>, <<34, "BlackPawn">>, <<39, "BlackRook">>,
                  <<43, "BlackPawn">>},
                 "White", NoCastling, {42}, 0, 1)

\* 4k3/8/8/3pP3/5p2/8/6P1/4K3 w - d6 0 2
FenEnPassant ==
    Position_new({<<4, "WhiteKing">>, <<14, "WhitePawn">>, <<29, "BlackPawn">>,
                  <<35, "BlackPawn">>, <<36, "WhitePawn">>, <<60, "BlackKing">>},
                 "White", NoCastling, {43}, 0, 2)

\* 4k3/8/8/8/8/8/p7/1N2K3 b - - 5 10
FenBlackPromotion ==
    Position_new({<<1, "WhiteKnight">>, <<4, "WhiteKing">>, <<8, "BlackPawn">>,
                  <<60, "BlackKing">>},
                 "Black", NoCastling, {}, 5, 10)

\* 4k3/4r3/8/8/1b6/8/3NR3/4K3 w - - 3 7
FenPinned ==
    Position_new({<<4, "WhiteKing">>, <<11, "WhiteKnight">>, <<12, "WhiteRook">>,
                  <<25, "BlackBishop">>, <<52, "BlackRook">>, <<60, "BlackKing">>},
                 "White", NoCastling, {}, 3, 7)

\* 4k3/7p/8/8/8/7p/P7/4K3 w - - 0 1
FenDoublePush ==
    Position_new({<<4, "WhiteKing">>, <<8, "WhitePawn">>, <<23, "BlackPawn">>,
                  <<55, "BlackPawn">>, <<60, "BlackKing">>},
                 "White", NoCastling, {}, 0, 1)

InitialPositions ==
    {FenCastling, FenPromotion, FenEnPassantPinned, FenEnPassant,
     FenBlackPromotion, FenPinned, FenDoublePush}

\* ------------------------------------------------------------ OrderedMoves

\* The largest absolute value of a Score in the model.
MaxScore == 1
\* The most moves load_hash pushes, and the most load_captures pushes.
MaxHash == 2
MaxCaptures == 2
\* The longest segment handed to a SelectionSort on its own.
MaxSeg == 3
\* The calls of load_next_phase explored after the first that returns false.
MaxFalseCalls == 2

\* The commands the channel to the worker holds at most.
MaxQueue == 2

INF_N == -MaxScore
INF_P == MaxScore
Score_zero == 0
Scores == INF_N..INF_P

\* The moves the loaders push: a2a3 and b2b3.
LoaderMoves == {Mv(8, 16, "Normal", "None"), Mv(9, 17, "Normal", "None")}

\* enum Phase, in the order of its discriminants 0..8.
PHASES == <<"Pre", "HashTable", "QueenPromotions", "GoodCaptures", "EqualCaptures",
            "Killers", "Quiet", "BadCaptures", "Underpromotions">>

\* `phase as u8`
Phase_as_u8(ph) == (CHOOSE i \in DOMAIN PHASES : PHASES[i] = ph) - 1

\* FromPrimitive::from_u8: "None" for a number that is no discriminant.
Phase_from_u8(n) == IF n + 1 \in DOMAIN PHASES THEN PHASES[n + 1] ELSE "None"

\* Phase::inc that reports success at the last phase without moving.
Phase_inc_saturating(ph) ==
    IF Phase_from_u8(Phase_as_u8(ph) + 1) /= "None"
    THEN [phase |-> Phase_from_u8(Phase_as_u8(ph) + 1), res |-> TRUE]
    ELSE [phase |-> ph, res |-> TRUE]

\* Phase::inc that steps over a phase.
Phase_inc_skipping(ph) ==
    IF Phase_from_u8(Phase_as_u8(ph) + 2) /= "None"
    THEN [phase |-> Phase_from_u8(Phase_as_u8(ph) + 2), res |-> TRUE]
    ELSE [phase |-> ph, res |-> FALSE]

\* Phase::inc: the phase after the call and the bool it returns.
Phase_inc(ph) ==
    IF Phase_from_u8(Phase_as_u8(ph) + 1) /= "None"
    THEN [phase |-> Phase_from_u8(Phase_as_u8(ph) + 1), res |-> TRUE]
    ELSE [phase |-> ph, res |-> FALSE]

\* ScoredMoveList::push: an entry with score zero, not yielded.
ScoredMoveList_push(buf, mv) ==
    Append(buf, [mv |-> mv, score |-> Score_zero, yielded |-> FALSE])

RECURSIVE PushAll(_, _)
PushAll(buf, mvs) ==
    IF mvs = << >> THEN buf
    ELSE PushAll(ScoredMoveList_push(buf, Head(mvs)), Tail(mvs))

OrderedMoves_new == [buf |-> << >>, segment_start |-> 0, phase |-> "Pre"]

\* The indices (1-based) in buf of the current segment.
current_segment(o) == (o.segment_start + 1)..Len(o.buf)

\* The Loader's hooks: load_hash pushes l.hash, load_captures pushes
\* l.captures and score_captures writes l.scores over the segment's scores.
load_hash(l, buf) == PushAll(buf, l.hash)
load_captures(l, buf) == PushAll(buf, l.captures)
score_captures(l, o) ==
    [o EXCEPT !.buf = [i \in DOMAIN o.buf |->
                          IF i \in current_segment(o) /\ (i - o.segment_start) \in DOMAIN l.scores
                          THEN [o.buf[i] EXCEPT !.score = l.scores[i - o.segment_start]]
                          ELSE o.buf[i]]]

\* load_next_phase that keeps the buffer when it enters QueenPromotions.
load_next_phase_no_clear(o, l) ==
    LET inc == Phase_inc(o.phase)
        o1 == [o EXCEPT !.phase = inc.phase]
        cleared == [o1 EXCEPT !.buf = << >>]
    IN  IF ~inc.res
        THEN [om |-> o, res |-> FALSE, hooks |-> << >>]
        ELSE CASE inc.phase = "HashTable" ->
                    [om |-> [o1 EXCEPT !.buf = load_hash(l, o1.buf)],
                     res |-> TRUE, hooks |-> <<"load_hash">>]
               [] inc.phase = "QueenPromotions" ->
                    [om |-> o1, res |-> TRUE, hooks |-> << >>]
               [] inc.phase = "GoodCaptures" ->
                    [om |-> score_captures(l, [o1 EXCEPT !.buf = load_captures(l, o1.buf)]),
                     res |-> TRUE, hooks |-> <<"load_captures", "score_captures">>]
               [] OTHER ->
                    [om |-> cleared, res |-> TRUE, hooks |-> << >>]

\* load_next_phase that stacks the captures behind the entries of the earlier
\* phases and moves the segment start up to them.
load_next_phase_stacking(o, l) ==
    LET inc == Phase_inc(o.phase)
        o1 == [o EXCEPT !.phase = inc.phase]
        cleared == [o1 EXCEPT !.buf = << >>]
        stacked == [o1 EXCEPT !.segment_start = Len(o1.buf)]
    IN  IF ~inc.res
        THEN [om |-> o, res |-> FALSE, hooks |-> << >>]
        ELSE CASE inc.phase = "HashTable" ->
                    [om |-> [o1 EXCEPT !.buf = load_hash(l, o1.buf)],
                     res |-> TRUE, hooks |-> <<"load_hash">>]
               [] inc.phase = "QueenPromotions" ->
                    [om |-> o1, res |-> TRUE, hooks |-> << >>]
               [] inc.phase = "GoodCaptures" ->
                    [om |-> score_captures(l, [stacked EXCEPT
                                                  !.buf = load_captures(l, stacked.buf)]),
                     res |-> TRUE, hooks |-> <<"load_captures", "score_captures">>]
               [] OTHER ->
                    [om |-> cleared, res |-> TRUE, hooks |-> << >>]

\* load_next_phase that calls score_captures before load_captures.
load_next_phase_score_first(o, l) ==
    LET inc == Phase_inc(o.phase)
        o1 == [o EXCEPT !.phase = inc.phase]
        cleared == [o1 EXCEPT !.buf = << >>]
        scored == score_captures(l, cleared)
    IN  IF ~inc.res
        THEN [om |-> o, res |-> FALSE, hooks |-> << >>]
        ELSE CASE inc.phase = "HashTable" ->
                    [om |-> [o1 EXCEPT !.buf = load_hash(l, o1.buf)],
                     res |-> TRUE, hooks |-> <<"load_hash">>]
               [] inc.phase = "GoodCaptures" ->
                    [om |-> [scored EXCEPT !.buf = load_captures(l, scored.buf)],
                     res |-> TRUE, hooks |-> <<"score_captures", "load_captures">>]
               [] OTHER ->
                    [om |-> cleared, res |-> TRUE, hooks |-> << >>]

\* load_next_phase: the OrderedMoves after the call, the bool it returns and
\* the Loader hooks it called, in order.
load_next_phase(o, l) ==
    LET inc == Phase_inc(o.phase)
        o1 == [o EXCEPT !.phase = inc.phase]
        cleared == [o1 EXCEPT !.buf = << >>]
    IN  IF ~inc.res
        THEN [om |-> o, res |-> FALSE, hooks |-> << >>]
        ELSE CASE inc.phase = "HashTable" ->
                    [om |-> [o1 EXCEPT !.buf = load_hash(l, o1.buf)],
                     res |-> TRUE, hooks |-> <<"load_hash">>]
               [] inc.phase = "GoodCaptures" ->
                    [om |-> score_captures(l, [cleared EXCEPT
                                                  !.buf = load_captures(l, cleared.buf)]),
                     res |-> TRUE, hooks |-> <<"load_captures", "score_captures">>]
               [] OTHER ->
                    [om |-> cleared, res |-> TRUE, hooks |-> << >>]

\* The scan of SelectionSort::next over the entries seg[1..n]: <<max, index of
\* max_entry>> with index 0 while found_one is false.
RECURSIVE Scan(_, _, _)
Scan(buf, idxs, acc) ==
    IF idxs = << >> THEN acc
    ELSE LET i == Head(idxs)
         IN  Scan(buf, Tail(idxs),
                  IF ~buf[i].yielded /\ buf[i].score > acc[1]
                  THEN <<buf[i].score, i>>
                  ELSE acc)

\* The scan with the comparison turned round: it keeps the least score.
RECURSIVE ScanMin(_, _, _)
ScanMin(buf, idxs, acc) ==
    IF idxs = << >> THEN acc
    ELSE LET i == Head(idxs)
         IN  ScanMin(buf, Tail(idxs),
                     IF ~buf[i].yielded /\ (acc[2] = 0 \/ buf[i].score < acc[1])
                     THEN <<buf[i].score, i>>
                     ELSE acc)

SegSeq(o) == [k \in 1..(Len(o.buf) - o.segment_start) |-> o.segment_start + k]

\* SelectionSort::next over the scan that keeps the least score.
SelectionSort_next_min(o) ==
    LET found == ScanMin(o.buf, SegSeq(o), <<INF_N, 0>>)
    IN  IF found[2] /= 0
        THEN [om |-> [o EXCEPT !.buf[found[2]].yielded = TRUE],
              item |-> << o.buf[found[2]].mv >>, index |-> found[2]]
        ELSE [om |-> o, item |-> << >>, index |-> 0]

\* SelectionSort::next that never sets the yielded flag.
SelectionSort_next_no_flag(o) ==
    LET found == Scan(o.buf, SegSeq(o), <<INF_N, 0>>)
    IN  IF found[2] /= 0
        THEN [om |-> o, item |-> << o.buf[found[2]].mv >>, index |-> found[2]]
        ELSE [om |-> o, item |-> << >>, index |-> 0]

\* SelectionSort::next that clears the yielded flags of the segment when it
\* finds the segment exhausted.
SelectionSort_next_reset(o) ==
    LET found == Scan(o.buf, SegSeq(o), <<INF_N, 0>>)
    IN  IF found[2] /= 0
        THEN [om |-> [o EXCEPT !.buf[found[2]].yielded = TRUE],
              item |-> << o.buf[found[2]].mv >>, index |-> found[2]]
        ELSE [om |-> [o EXCEPT !.buf = [i \in DOMAIN o.buf |->
                                          [o.buf[i] EXCEPT !.yielded = FALSE]]],
              item |-> << >>, index |-> 0]

\* SelectionSort::next on the current segment: the buffer after the call, the
\* item returned (<< >> for None, << move >> for Some) and the entry it is of.
SelectionSort_next(o) ==
    LET found == Scan(o.buf, SegSeq(o), <<INF_N, 0>>)
    IN  IF found[2] /= 0
        THEN [om |-> [o EXCEPT !.buf[found[2]].yielded = TRUE],
              item |-> << o.buf[found[2]].mv >>, index |-> found[2]]
        ELSE [om |-> o, item |-> << >>, index |-> 0]

\* into_iter: which IterInner the phase gets.
into_iter(o) == IF o.phase = "HashTable" THEN "Hash" ELSE "Empty"

\* IterInner::next
IterInner_next(kind, o) ==
    IF kind = "Hash" THEN SelectionSort_next(o)
    ELSE [om |-> o, item |-> << >>, index |-> 0]

\* ------------------------------------------------------------ UCI moves

FileNames == <<"a", "b", "c", "d", "e", "f", "g", "h">>
RankNames == <<"1", "2", "3", "4", "5", "6", "7", "8">>

SquareName(sq) == FileNames[file_of_sq(sq) + 1] \o RankNames[rank_idx_of_sq(sq) + 1]

PromoLetter(ty) ==
    CASE ty = "Queen" -> "q"
      [] ty = "Rook" -> "r"
      [] ty = "Bishop" -> "b"
      [] ty = "Knight" -> "n"

\* Move::to_uci_string: origin square, destination square, and the letter of
\* the promotion piece if the move promotes; no separators.
to_uci_string(mov) ==
    SquareName(mov.orig) \o SquareName(mov.dest)
        \o (IF is_promo(mov) THEN PromoLetter(mov.promo) ELSE "")

\* make_uci_move(uci) in a build with (dbg) or without debug assertions: the
\* position it leaves, what it returns (None, or the move made in a
\* one-element sequence) and whether make_move panicked on the way.
make_uci_move(p, uci, dbg) ==
    LET moves == generate_legal(p)
        hits == {mov \in moves : to_uci_string(mov) = uci}
    IN  IF hits = {}
        THEN [pos |-> p, ret |-> << >>, panicked |-> FALSE]
        ELSE LET mov == CHOOSE m \in hits : TRUE
                 r == make_move(p, mov, dbg)
             IN  [pos |-> r.pos, ret |-> <<mov>>, panicked |-> r.panicked]

\* R3k2r/8/8/8/8/8/8/4K2R b Kk - 0 1
FenInCheck ==
    Position_new({<<4, "WhiteKing">>, <<7, "WhiteRook">>, <<56, "WhiteRook">>,
                  <<60, "BlackKing">>, <<63, "BlackRook">>},
                 "Black",
                 [white_kingside |-> TRUE, white_queenside |-> FALSE,
                  black_kingside |-> TRUE, black_queenside |-> FALSE],
                 {}, 0, 1)

\* The positions make_uci_move is called on.
UciPositions == InitialPositions \cup {FenInCheck}

\* The strings handed to make_uci_move in position p: the UCI string of every
\* pseudo-legal move, and strings that are the UCI string of no move of p.
UciInputs(p) ==
    {to_uci_string(m) : m \in generate_pseudolegal(p)}
        \cup {"", "0000", "e1e3", "a7a8", "e1g1"}

\* ------------------------------------------------------------- the Engine

\* Position::default(): the starting position of chess.
StartPos ==
    LET back == <<"Rook", "Knight", "Bishop", "Queen", "King", "Bishop", "Knight", "Rook">>
    IN  Position_new({<<SqAt(f, 0), Piece_make("White", back[f + 1])>> : f \in 0..7}
                        \cup {<<SqAt(f, 1), "WhitePawn">> : f \in 0..7}
                        \cup {<<SqAt(f, 6), "BlackPawn">> : f \in 0..7}
                        \cup {<<SqAt(f, 7), Piece_make("Black", back[f + 1])>> : f \in 0..7},
                     "White", AllCastling, {}, 0, 1)

\* An Option<Position>: None is << >>, Some(p) is <<p>>.
Some(x) == <<x>>
None == << >>

\* Engine::new: the default configuration and the default position. state
\* is where the worker thread stands: "idle" in recv at the top of the loop
\* of launch, "searching" inside the start_search call of command_go,
\* "panicked" once a handler has panicked and the thread is gone. search is
\* the position the running Search owns.
Engine_new ==
    [pos |-> Some(StartPos), config |-> "default", state |-> "idle", search |-> None]

\* The Engine part of the state while something else is exercised.
EngineIdle ==
    /\ engine = Engine_new
    /\ rx = << >>
    /\ tx = << >>

\* Position::from_fen on the strings the session hands over: the position
\* of a well-formed FEN, or an error naming the malformed field.
FenStrings ==
    {"r3k2r/8/8/8/8/8/8/R3K2R w KQkq - 0 1",
     "r3k2r/8/8/8/8/8/8/R3K2R x KQkq - 0 1",
     "r3k2r/8/8/8/8/8/8 w KQkq - 0 1"}

from_fen(fen) ==
    CASE fen = "r3k2r/8/8/8/8/8/8/R3K2R w KQkq - 0 1" -> [ok |-> TRUE, pos |-> FenCastling]
      [] fen = "r3k2r/8/8/8/8/8/8/R3K2R x KQkq - 0 1" -> [ok |-> FALSE, err |-> "turn"]
      [] fen = "r3k2r/8/8/8/8/8/8 w KQkq - 0 1" -> [ok |-> FALSE, err |-> "board"]

\* The move lists of a position command: empty, all legal, a string that is
\* no move between two legal moves, and two strings that are no move.
MoveLists ==
    {<< >>, <<"e1g1">>, <<"e1g1", "zz", "e8c8">>, <<"zz", "e1e3">>}

\* The values of Command the session sends.
Commands ==
    {<<"Uci">>, <<"IsReady">>, <<"UciNewGame">>, <<"SetOption", "opt">>,
     <<"Go", "tm">>, <<"Stop">>, <<"Quit">>, <<"Display">>, <<"Config">>}
        \cup {<<"SetPosition", fen, moves>> : fen \in FenStrings, moves \in MoveLists}

\* The values of Resp the worker sends.
Resp_Id == <<"Id">>
Resp_OptionsList == <<"OptionsList">>
Resp_Uciok == <<"Uciok">>
Resp_ReadyOk == <<"ReadyOk">>
Resp_InvalidMove == <<"UciParseError", <<"InvalidMove">>>>
Resp_InvalidPosition(err) == <<"UciParseError", <<"InvalidPosition", err>>>>

\* What a handler leaves: the engine, and the responses it sent in order.
Handled(e, sent) == [engine |-> e, sent |-> sent]

\* A handler that panicked: the responses sent before the panic stay sent.
Panic(e, sent) == Handled([e EXCEPT !.state = "panicked"], sent)

\* command_uci sending uciok ahead of the option list.
command_uci_uciok_early(e) == Handled(e, <<Resp_Id, Resp_Uciok, Resp_OptionsList>>)

command_uci(e) == Handled(e, <<Resp_Id, Resp_OptionsList, Resp_Uciok>>)

\* command_display and command_config write to the standard output only.
command_display(e) == Handled(e, << >>)

command_config(e) == Handled(e, << >>)

command_isready(e) == Handled(e, <<Resp_ReadyOk>>)

command_ucinewgame(e) == Handled(e, << >>)

\* The loop of command_set_position over the move strings: every string is
\* handed to make_uci_move in turn on the position the earlier ones left,
\* and every None sends one InvalidMove; nothing leaves the loop early
\* except a panic of make_move. (Results are bound through one-element sets
\* so that each call is evaluated once.)
RECURSIVE apply_moves(_, _, _)
apply_moves(p, moves, dbg) ==
    IF moves = << >>
    THEN [pos |-> p, sent |-> << >>, panicked |-> FALSE]
    ELSE CHOOSE out \in
            {IF r.panicked
             THEN [pos |-> r.pos, sent |-> << >>, panicked |-> TRUE]
             ELSE CHOOSE o \in
                    {[pos |-> rest.pos,
                      sent |-> (IF r.ret = << >> THEN <<Resp_InvalidMove>> ELSE << >>)
                                   \o rest.sent,
                      panicked |-> rest.panicked]
                        : rest \in {apply_moves(r.pos, Tail(moves), dbg)}} : TRUE
                : r \in {make_uci_move(p, Head(moves), dbg)}} : TRUE

\* command_set_position with the Err arm clearing the installed position.
command_set_position_clearing(e, fen, moves, dbg) ==
    CHOOSE out \in
        {IF parsed.ok
         THEN CHOOSE o \in
                {IF r.panicked
                 THEN Panic(e, r.sent)
                 ELSE Handled([e EXCEPT !.pos = Some(r.pos)], r.sent)
                    : r \in {apply_moves(parsed.pos, moves, dbg)}} : TRUE
         ELSE Handled([e EXCEPT !.pos = None], <<Resp_InvalidPosition(parsed.err)>>)
            : parsed \in {from_fen(fen)}} : TRUE

command_set_position(e, fen, moves, dbg) ==
    CHOOSE out \in
        {IF parsed.ok
         THEN CHOOSE o \in
                {IF r.panicked
                 THEN Panic(e, r.sent)
                 ELSE Handled([e EXCEPT !.pos = Some(r.pos)], r.sent)
                    : r \in {apply_moves(parsed.pos, moves, dbg)}} : TRUE
         ELSE Handled(e, <<Resp_InvalidPosition(parsed.err)>>)
            : parsed \in {from_fen(fen)}} : TRUE

\* Config::set_option: the configuration takes the option.
command_set_option(e, o) == Handled([e EXCEPT !.config = o], << >>)

\* command_go up to the call of start_search: the position is taken out of
\* the engine and handed to the Search; with no position the handler hits
\* unreachable!.
command_go(e, tm) ==
    IF e.pos = None
    THEN Panic(e, << >>)
    ELSE Handled([e EXCEPT !.pos = None, !.search = e.pos, !.state = "searching"], << >>)

\* command_go that drops the position the search hands back.
command_go_return_dropping(e) ==
    [e EXCEPT !.search = None, !.state = "idle"]

\* Search::start_search hands back the position it was given; command_go
\* drops the score and stores the position.
command_go_return(e) ==
    [e EXCEPT !.pos = e.search, !.search = None, !.state = "idle"]

dispatch_command(e, cmd, dbg) ==
    CASE cmd[1] = "Uci" -> command_uci(e)
      [] cmd[1] = "IsReady" -> command_isready(e)
      [] cmd[1] = "UciNewGame" -> command_ucinewgame(e)
      [] cmd[1] = "SetPosition" -> command_set_position(e, cmd[2], cmd[3], dbg)
      [] cmd[1] = "SetOption" -> command_set_option(e, cmd[2])
      [] cmd[1] = "Go" -> command_go(e, cmd[2])
      [] cmd[1] = "Stop" -> Panic(e, << >>)
      [] cmd[1] = "Quit" -> Panic(e, << >>)
      [] cmd[1] = "Display" -> command_display(e)
      [] cmd[1] = "Config" -> command_config(e)

\* A receiver that takes the newest message of the channel.
recv_newest(chan) ==
    [msg |-> chan[Len(chan)], rest |-> SubSeq(chan, 1, Len(chan) - 1)]

\* Receiver::recv on a channel that holds a message: the oldest message,
\* and the channel without it.
recv(chan) == [msg |-> Head(chan), rest |-> Tail(chan)]

\* ------------------------------------------------------ the perft driver

\* The deepest perft asked for.
MaxDepth == 2

\* Position::generate_moves::<BasicMoveList>: the legal move generator.
generate_moves(p) == generate_legal(p)

\* Perft::perft_recurse: at depth 1 the count grows by the number of moves
\* generated; at any other depth an OrderedMoves is built and dropped, the
\* walk over its phases being commented out.
perft_recurse(pf, depth) ==
    IF depth = 1
    THEN [pf EXCEPT !.count = @ + Cardinality(generate_moves(pf.pos))]
    ELSE pf

\* Perft::perft: a driver with count 0 recurses and hands back its count.
Perft_perft(p, depth) == perft_recurse([pos |-> p, count |-> 0], depth).count

\* The position from_fen builds from the FEN of q.
FromFenOf(q) ==
    Position_new({<<sq, q.board[sq]>> : sq \in {x \in Squares : q.board[x] /= "None"}},
                 q.turn, q.castling_rights, q.ep_square, q.half_move_clock,
                 q.move_number)

\* The positions of the reference table: the starting position, the
\* initial positions and the positions one legal move away from them.
PerftPositions ==
    {StartPos} \cup InitialPositions
        \cup UNION {{FromFenOf(make_move(p, m, FALSE).pos) : m \in LegalMoves(p)}
                        : p \in InitialPositions}

\* ------------------------------------------------ the Position state machine

NoMove == Mv(0, 0, "Normal", "None")

\* What the observer holds where it keeps no position.
NoPosition == [history |-> <<NoMove>>]

\* The observer of a walk: the live iterator ("none" when there is none), the
\* live iterator being one created after an earlier iterator over the same
\* phase has yielded (resumed), the yields so far, the hooks called so far, what each call of load_next_phase
\* returned and whether the last call of next returned None.
Walk_new ==
    [iter |-> "none", resumed |-> FALSE, yields |-> << >>, hooks |-> << >>,
     returned |-> << >>, exhausted |-> FALSE]

\* The OrderedMoves part of the state while the Position is exercised.
OMIdle ==
    /\ om = OrderedMoves_new
    /\ loader = [hash |-> << >>, captures |-> << >>, scores |-> << >>]
    /\ walk = Walk_new

InitPosition ==
    /\ pos \in InitialPositions
    /\ debug_assertions \in BOOLEAN
    /\ panicked = FALSE
    /\ shadow = << >>
    /\ last = [op |-> "init", mov |-> NoMove, ret |-> "None",
               before |-> pos, expect |-> pos]
    /\ OMIdle
    /\ EngineIdle
    /\ BitboardIdle

\* A caller makes one of the legal moves of the position.
MakeMove ==
    /\ ~panicked
    /\ Len(pos.history) < MaxPly
    /\ \E mov \in LegalMoves(pos) :
         LET r == make_move(pos, mov, debug_assertions)
         IN  /\ pos' = r.pos
             /\ panicked' = r.panicked
             /\ shadow' = Append(shadow, pos)
             /\ last' = [op |-> "make", mov |-> mov, ret |-> "unit",
                         before |-> pos, expect |-> pos]
    /\ UNCHANGED <<debug_assertions, om, loader, walk, engVars, bbVars>>

\* A caller unmakes the most recent move (or finds the history empty). The
\* observer keeps the position before the call when its history was empty,
\* and the position the matching make_move started from otherwise.
UnmakeMove ==
    /\ ~panicked
    /\ LET r == unmake_move(pos)
       IN  /\ pos' = r.pos
           /\ last' = [op |-> "unmake",
                       mov |-> NoMove,
                       ret |-> IF r.ret = << >> THEN "None" ELSE "Some",
                       before |-> IF pos.history = << >> THEN pos ELSE NoPosition,
                       expect |-> IF shadow = << >> THEN pos
                                  ELSE shadow[Len(shadow)]]
    /\ shadow' = SubSeq(shadow, 1, Len(shadow) - 1)
    /\ panicked' = (/\ debug_assertions
                    /\ pos.history /= << >>
                    /\ ~assert_unmake(pos, pos.history[Len(pos.history)]))
    /\ UNCHANGED <<debug_assertions, om, loader, walk, engVars, bbVars>>

NextPosition == MakeMove \/ UnmakeMove

Spec == InitPosition /\ [][NextPosition]_vars

\* -------------------------------------------- the OrderedMoves state machine

\* The Position part of the state while the OrderedMoves is exercised.
PositionIdle ==
    /\ pos = FenCastling
    /\ debug_assertions = FALSE
    /\ panicked = FALSE
    /\ shadow = << >>
    /\ last = [op |-> "init", mov |-> NoMove, ret |-> "None",
               before |-> FenCastling, expect |-> FenCastling]

SeqsUpTo(S, n) == UNION {[1..k -> S] : k \in 0..n}

\* The scores a Loader writes in score_captures.
LoaderScores == {INF_N, Score_zero, INF_P}

Loaders ==
    {[hash |-> h, captures |-> c, scores |-> sc] :
        h \in SeqsUpTo(LoaderMoves, MaxHash),
        c \in SeqsUpTo(LoaderMoves, MaxCaptures),
        sc \in SeqsUpTo(LoaderScores, MaxCaptures)}

InitOM ==
    /\ om = OrderedMoves_new
    /\ loader \in {l \in Loaders : Len(l.scores) = Len(l.captures)}
    /\ walk = Walk_new
    /\ PositionIdle
    /\ EngineIdle
    /\ BitboardIdle

\* The search calls load_next_phase (no iterator borrows the OrderedMoves).
LoadNextPhase ==
    /\ walk.iter = "none"
    /\ Len(walk.returned) < Len(PHASES) - 1 + MaxFalseCalls
    /\ LET r == load_next_phase(om, loader)
       IN  /\ om' = r.om
           /\ walk' = [walk EXCEPT !.returned = Append(@, r.res),
                                   !.hooks = @ \o r.hooks,
                                   !.resumed = FALSE,
                                   !.exhausted = FALSE]
    /\ UNCHANGED <<loader, posVars, engVars, bbVars>>

\* for mov in &mut moves: the iterator of the current phase is created.
IntoIter ==
    /\ walk.iter = "none"
    /\ walk' = [walk EXCEPT !.iter = into_iter(om),
                            !.resumed = \E i \in DOMAIN walk.yields :
                                            walk.yields[i].phase = om.phase,
                            !.exhausted = FALSE]
    /\ UNCHANGED <<om, loader, posVars, engVars, bbVars>>

\* One call of next on the live iterator.
IterNext ==
    /\ walk.iter /= "none"
    /\ LET r == IterInner_next(walk.iter, om)
       IN  /\ om' = r.om
           /\ walk' = IF r.item = << >>
                      THEN [walk EXCEPT !.exhausted = TRUE]
                      ELSE [walk EXCEPT
                               !.yields = Append(@, [phase |-> om.phase,
                                                     mv |-> r.item[1],
                                                     score |-> om.buf[r.index].score,
                                                     index |-> r.index,
                                                     resumed |-> walk.resumed])]
    /\ UNCHANGED <<loader, posVars, engVars, bbVars>>

\* The iterator is dropped, drained or not (a beta cutoff).
DropIter ==
    /\ walk.iter /= "none"
    /\ walk' = [walk EXCEPT !.iter = "none", !.resumed = FALSE, !.exhausted = FALSE]
    /\ UNCHANGED <<om, loader, posVars, engVars, bbVars>>

NextOM == LoadNextPhase \/ IntoIter \/ IterNext \/ DropIter

SpecOM == InitOM /\ [][NextOM]_vars

\* A SelectionSort over any segment: entries of any score, some of them
\* yielded already.
Entries ==
    [mv : LoaderMoves, score : Scores, yielded : BOOLEAN]

InitSort ==
    /\ om \in {[buf |-> b, segment_start |-> 0, phase |-> "HashTable"] :
                  b \in SeqsUpTo(Entries, MaxSeg)}
    /\ loader = [hash |-> << >>, captures |-> << >>, scores |-> << >>]
    /\ walk = [Walk_new EXCEPT !.iter = "Hash"]
    /\ PositionIdle
    /\ EngineIdle
    /\ BitboardIdle

NextSort == IterNext

SpecSort == InitSort /\ [][NextSort]_vars

\* ----------------------------------------------- make_uci_move, call by call

InitUci ==
    /\ pos \in UciPositions
    /\ debug_assertions \in BOOLEAN
    /\ panicked = FALSE
    /\ shadow = << >>
    /\ last = [op |-> "init", mov |-> NoMove, ret |-> "None",
               before |-> pos, expect |-> pos]
    /\ OMIdle
    /\ EngineIdle
    /\ BitboardIdle

\* A caller hands one string to make_uci_move on a position just set up.
MakeUciMove ==
    /\ last.op = "init"
    /\ \E uci \in UciInputs(pos) :
         LET r == make_uci_move(pos, uci, debug_assertions)
         IN  /\ pos' = r.pos
             /\ panicked' = r.panicked
             /\ shadow' = IF r.ret = << >> THEN shadow ELSE Append(shadow, pos)
             /\ last' = [op |-> "uci", uci |-> uci,
                         mov |-> IF r.ret = << >> THEN NoMove ELSE r.ret[1],
                         ret |-> IF r.ret = << >> THEN "None" ELSE "Some",
                         before |-> pos, expect |-> pos]
    /\ UNCHANGED <<debug_assertions, om, loader, walk, engVars, bbVars>>

NextUci == MakeUciMove

SpecUci == InitUci /\ [][NextUci]_vars

\* ------------------------------------------------ the Engine worker thread

\* The worker starts in launch with nothing received; tx holds the
\* responses sent by the handler of the command received last.
InitEngine ==
    /\ PositionIdle
    /\ OMIdle
    /\ BitboardIdle
    /\ engine = Engine_new
    /\ rx = << >>
    /\ tx = << >>

\* The session thread sends a command; the channel takes it at its end
\* whatever the worker is doing, as long as the worker holds the receiver.
SessionSend ==
    /\ engine.state /= "panicked"
    /\ Len(rx) < MaxQueue
    /\ \E cmd \in Commands : rx' = Append(rx, cmd)
    /\ UNCHANGED <<engine, tx, posVars, omVars, bbVars>>

\* One turn of the loop of launch: recv, then dispatch_command to the end of
\* the handler (for Go, to the call of start_search).
Launch ==
    /\ engine.state = "idle"
    /\ rx /= << >>
    /\ \E s \in {recv(rx)} :
         \E h \in {dispatch_command(engine, s.msg, debug_assertions)} :
            /\ rx' = s.rest
            /\ engine' = h.engine
            /\ tx' = h.sent
    /\ UNCHANGED <<posVars, omVars, bbVars>>

\* start_search returns and command_go ends.
SearchReturns ==
    /\ engine.state = "searching"
    /\ engine' = command_go_return(engine)
    /\ UNCHANGED <<rx, tx, posVars, omVars, bbVars>>

NextEngine == SessionSend \/ Launch \/ SearchReturns

SpecEngine == InitEngine /\ [][NextEngine]_vars

\* --------------------------------------------------- the perft test

\* The test takes an entry of the table: a position and a depth.
InitPerft ==
    /\ pos \in PerftPositions
    /\ debug_assertions = FALSE
    /\ panicked = FALSE
    /\ shadow = << >>
    /\ \E d \in 1..MaxDepth :
         last = [op |-> "init", mov |-> NoMove, ret |-> 0, depth |-> d,
                 before |-> pos, expect |-> pos]
    /\ OMIdle
    /\ EngineIdle
    /\ BitboardIdle

\* The test calls Perft::perft on the entry.
RunPerft ==
    /\ last.op = "init"
    /\ last' = [last EXCEPT !.op = "perft", !.ret = Perft_perft(pos, last.depth)]
    /\ UNCHANGED <<pos, debug_assertions, panicked, shadow, omVars, engVars, bbVars>>

NextPerft == RunPerft

SpecPerft == InitPerft /\ [][NextPerft]_vars

\* ------------------------------------------------ iterating a Bitboard

\* The most set bits of an iterated word.
MaxBits == 3

\* The bits the iterated words are made of: both ends of the u64, the two
\* sides of the 32 bit boundary and neighbours.
BitSamples == {0, 1, 7, 8, 31, 32, 62, 63}

\* A caller iterates over a Bitboard: the iterator is a copy of the word.
InitBitboard ==
    /\ PositionIdle
    /\ OMIdle
    /\ EngineIdle
    /\ \E b \in {w \in SUBSET BitSamples : Cardinality(w) <= MaxBits} :
         bitboard = [orig |-> b, it |-> b, yields |-> << >>, ended |-> FALSE]

\* The caller asks the iterator for its next item.
BitboardNext ==
    /\ \E r \in {Bitboard_next(bitboard.it)} :
         bitboard' = [bitboard EXCEPT !.it = r.bb,
                                      !.yields = @ \o r.ret,
                                      !.ended = (r.ret = << >>)]
    /\ UNCHANGED <<posVars, omVars, engVars>>

NextBitboard == BitboardNext

SpecBitboard == InitBitboard /\ [][NextBitboard]_vars

\* ------------------------------------------------------ claims: Position

\* C1: make/unmake identity. Every make_move of a legal move returns, and the
\* unmake_move that follows it leaves a position equal in every field
\* (mailbox, bitboards, counts, turn, castling rights, en passant square,
\* clocks, derived state, history) to the position before the make_move.
C1_MakeUnmakeIdentity ==
    /\ (last.op = "make" => ~panicked)
    /\ (last.op = "unmake" /\ last.ret = "Some" => pos = last.expect)

\* The part of C1 that holds in every build: an unmake_move that pops a move
\* restores the position the matching make_move started from.
UnmakeRestores ==
    last.op = "unmake" /\ last.ret = "Some" => pos = last.expect

\* C2: bitboard-mailbox agreement. In every position reached by make_move and
\* unmake_move, the mailbox holds piece X on square s iff bit s is set in X's
\* bitboard and in no other piece bitboard; each colour bitboard is the union
\* of that colour's six piece bitboards; !no_piece is the union of all twelve;
\* and the piece counts are the pop-counts of the colour bitboards.
C2_BitboardMailboxAgreement ==
    LET bbs(pl) == UNION {pos[piece_field(Piece_make(pl, ty))] : ty \in PieceTypes}
    IN  /\ \A s \in Squares : \A X \in Pieces :
              (pos.board[s] = X) <=>
                  /\ s \in pos[piece_field(X)]
                  /\ \A Y \in Pieces \ {X} : s \notin pos[piece_field(Y)]
        /\ pos.white_pieces = bbs("White")
        /\ pos.black_pieces = bbs("Black")
        /\ bb_not(pos.no_piece) = bbs("White") \cup bbs("Black")
        /\ pos.white_piece_count = popcnt(pos.white_pieces)
        /\ pos.black_piece_count = popcnt(pos.black_pieces)

\* A promotion with capture has been made: remove_piece_c of the captured
\* piece, move_piece_c of the pawn, remove_piece_c and put_piece_c on arrival.
C2_Witness ==
    /\ last.op = "make"
    /\ ~panicked
    /\ is_promo(last.mov)
    /\ piece_at_sq(last.before, last.mov.dest) /= "None"
    /\ piece_at_sq(pos, last.mov.dest) = Piece_make(last.before.turn, promo_piece_type(last.mov))

\* C3: the legality oracle. For every pseudo-legal non-castling move m of the
\* side to move, legal_move(m) is true iff no enemy piece attacks the mover's
\* king once m is on the board.
C3_LegalityOracle ==
    ~panicked =>
        \A m \in generate_pseudolegal(pos) :
            m.kind /= "Castling" => (legal_move(pos, m) <=> ~leaves_king_attacked(pos, m))

\* What legal_move does get right: it never rejects a move of a side that is
\* not in check which leaves the king safe, and it accepts no unsafe move of
\* such a side.
LegalityOracleOutOfCheck ==
    ~panicked /\ ~in_check(pos) =>
        \A m \in generate_pseudolegal(pos) :
            m.kind /= "Castling" => (legal_move(pos, m) <=> ~leaves_king_attacked(pos, m))

\* C9: unmake_move on an empty history returns None and changes no field of
\* the position.
C9_UnmakeEmptyHistory ==
    last.op = "unmake" /\ last.before.history = << >> =>
        last.ret = "None" /\ pos = last.before

C9_Witness ==
    last.op = "unmake" /\ last.before.history = << >> /\ last.ret = "None"

\* C10: the castling rights after make_move. A right survives a move iff it
\* was there before, the move is not a move of that side's king, and neither
\* the origin nor the destination of the move is the rook start-square the
\* right is tied to.
C10_CastlingRightsUpdate ==
    last.op = "make" /\ ~panicked =>
        LET m == last.mov
            b == last.before
            king_moved(pl) == piece_at_sq(b, m.orig) = Piece_make(pl, "King")
            keeps(pl, rook_sq) ==
                ~king_moved(pl) /\ m.orig /= rook_sq /\ m.dest /= rook_sq
        IN  pos.castling_rights =
              [white_kingside |-> b.castling_rights.white_kingside /\ keeps("White", H1),
               white_queenside |-> b.castling_rights.white_queenside /\ keeps("White", A1),
               black_kingside |-> b.castling_rights.black_kingside /\ keeps("Black", H8),
               black_queenside |-> b.castling_rights.black_queenside /\ keeps("Black", A8)]

\* The part of C10 the code keeps: a move FROM a king or rook start-square
\* clears the rights tied to it (e1g1 leaves White without castling rights).
CastlingRightsUpdateOrigin ==
    last.op = "make" /\ ~panicked =>
        pos.castling_rights = castling_update(last.before.castling_rights, last.mov.orig)

\* -------------------------------------------------- claims: OrderedMoves

Distinct(seq) == \A i, j \in DOMAIN seq : i /= j => seq[i] /= seq[j]

\* C4 as stated: across a walk no Move value is yielded twice.
C4_NoMoveYieldedTwice ==
    \A i, j \in DOMAIN walk.yields : i /= j => walk.yields[i].mv /= walk.yields[j].mv

\* C4 as amended: across a walk no buffer entry is yielded twice; and no Move
\* value is yielded twice provided the Loader pushed no Move value twice in
\* load_hash, the one phase whose entries are yielded.
C4_NoEntryYieldedTwice ==
    /\ \A i, j \in DOMAIN walk.yields :
          i /= j /\ walk.yields[i].phase = walk.yields[j].phase
              => walk.yields[i].index /= walk.yields[j].index
    /\ Distinct(loader.hash) => C4_NoMoveYieldedTwice

\* A full walk that yielded two moves.
C4_Witness ==
    /\ Len(walk.returned) = Len(PHASES)
    /\ walk.returned[Len(PHASES)] = FALSE
    /\ Len(walk.yields) = 2
    /\ Distinct(loader.hash)

\* C5: every yield within a phase returns the move of an entry that was not
\* yielded and whose score is the maximum among the entries not yielded, and
\* sets the yielded flag of that entry and nothing else; so the scores of
\* successive yields of a phase never increase.
C5_YieldsMaximum ==
    /\ [](\A i, j \in DOMAIN walk.yields :
              i < j /\ walk.yields[i].phase = walk.yields[j].phase
                  => walk.yields[i].score >= walk.yields[j].score)
    /\ [][walk'.yields /= walk.yields =>
            LET y == walk'.yields[Len(walk'.yields)]
            IN  /\ walk'.yields = Append(walk.yields, y)
                /\ y.index \in current_segment(om)
                /\ ~om.buf[y.index].yielded
                /\ y.mv = om.buf[y.index].mv
                /\ y.score = om.buf[y.index].score
                /\ \A j \in current_segment(om) :
                       ~om.buf[j].yielded => om.buf[j].score <= y.score
                /\ om' = [om EXCEPT !.buf[y.index].yielded = TRUE]]_vars

\* Two yields of one phase, the larger score found behind the smaller one in
\* the buffer, with an entry left that is never yielded.
C5_Witness ==
    /\ Len(walk.yields) = 2
    /\ walk.yields[1].score > walk.yields[2].score
    /\ walk.yields[1].index > walk.yields[2].index
    /\ \E k \in DOMAIN om.buf : ~om.buf[k].yielded

TrueCount(seq) == Cardinality({i \in DOMAIN seq : seq[i]})

\* C6: the phase cursor starts at Pre and is always the phase whose
\* discriminant is the number of successful load_next_phase calls so far: it
\* moves one phase forward per successful call, whatever is iterated in
\* between, and never retreats or skips.
C6_PhaseCursor ==
    /\ walk.returned = << >> => om.phase = "Pre"
    /\ \E i \in DOMAIN PHASES : om.phase = PHASES[i]
    /\ Phase_as_u8(om.phase) = TrueCount(walk.returned)

\* The last phase, reached after a move was yielded on the way.
C6_Witness ==
    om.phase = "Underpromotions" /\ walk.yields /= << >>

\* C7: load_next_phase returns true on its first 8 calls and false on every
\* later one; a call that returns false calls no hook and leaves the phase
\* (Underpromotions) and the buffer as they were.
C7_LoadNextPhaseReturns ==
    /\ [](\A i \in DOMAIN walk.returned : walk.returned[i] <=> (i <= Len(PHASES) - 1))
    /\ [][(walk'.returned /= walk.returned
             /\ walk'.returned[Len(walk'.returned)] = FALSE)
            => /\ om.phase = "Underpromotions"
               /\ om' = om
               /\ walk'.hooks = walk.hooks]_vars

\* Two calls after the last phase.
C7_Witness ==
    /\ Len(walk.returned) = Len(PHASES) + 1
    /\ walk.hooks /= << >>

\* What the hooks of the Loader leave in the buffer of a phase.
ExpectedEntries(l, ph) ==
    CASE ph = "HashTable" ->
           [i \in DOMAIN l.hash |->
               [mv |-> l.hash[i], score |-> Score_zero, yielded |-> FALSE]]
      [] ph = "GoodCaptures" ->
           [i \in DOMAIN l.captures |->
               [mv |-> l.captures[i], score |-> l.scores[i], yielded |-> FALSE]]
      [] OTHER -> << >>

\* C8: early termination safety. Whatever was iterated before (a phase
\* drained, dropped after a prefix, or never iterated), the entries in the
\* buffer of every later phase are the ones the Loader's hooks leave there,
\* none of them yielded, and the moves a phase yields come from its own
\* entries only.
C8_EarlyTerminationSafety ==
    /\ om.phase /= "HashTable" => om.buf = ExpectedEntries(loader, om.phase)
    /\ om.phase = "HashTable" =>
          [i \in DOMAIN om.buf |-> [om.buf[i] EXCEPT !.yielded = FALSE]]
              = ExpectedEntries(loader, "HashTable")
    /\ \A i \in DOMAIN walk.yields :
          LET y == walk.yields[i]
          IN  /\ y.index \in DOMAIN ExpectedEntries(loader, y.phase)
              /\ y.mv = ExpectedEntries(loader, y.phase)[y.index].mv

\* The captures phase loaded after the hash phase was dropped half-way.
C8_Witness ==
    /\ om.phase = "GoodCaptures"
    /\ om.buf /= << >>
    /\ Len(loader.hash) = 2
    /\ Len(walk.yields) = 1

\* ------------------------------------------- claims: make_move in detail

\* A move of a pawn two ranks along its file, on the board b it is made on.
IsDoublePush(b, m) ==
    /\ type_of(piece_at_sq(b, m.orig)) = "Pawn"
    /\ file_of_sq(m.orig) = file_of_sq(m.dest)
    /\ rank_idx_of_sq(m.dest) - rank_idx_of_sq(m.orig) \in {2, -2}

\* An enemy pawn stands next to the destination of m, on its rank.
EnemyPawnBeside(b, m) ==
    \E s \in Squares :
        /\ rank_idx_of_sq(s) = rank_idx_of_sq(m.dest)
        /\ file_of_sq(s) - file_of_sq(m.dest) \in {1, -1}
        /\ piece_at_sq(b, s) = Piece_make(other_player(b.turn), "Pawn")

\* C11: after make_move(m) the en passant square is the square the pawn
\* skipped if m is a double pawn push with an enemy pawn on an adjacent file
\* of the destination's rank, and None after every other move.
C11_EpSquareAfterMake ==
    last.op = "make" =>
        pos.ep_square =
            IF IsDoublePush(last.before, last.mov) /\ EnemyPawnBeside(last.before, last.mov)
            THEN {(last.mov.orig + last.mov.dest) \div 2}
            ELSE {}

\* A double push that no enemy pawn can capture, although an enemy pawn
\* stands on the square numbered just before the destination (a2a4 with a
\* black pawn on h3): the en passant square stays None.
C11_Witness ==
    /\ last.op = "make"
    /\ IsDoublePush(last.before, last.mov)
    /\ ~EnemyPawnBeside(last.before, last.mov)
    /\ pos.ep_square = {}
    /\ piece_at_sq(pos, last.mov.dest - 1) = Piece_make(pos.turn, "Pawn")

\* A double push that sets the en passant square.
EpSquareSet ==
    /\ last.op = "make"
    /\ IsDoublePush(last.before, last.mov)
    /\ pos.ep_square /= {}

\* The mailbox b after the two displacements of the castling move m of the
\* player pl: the king from orig to dest, the rook of the h-file to the f-file
\* (king-side) or of the a-file to the d-file (queen-side) on pl's back rank.
CastlingDisplaced(b, pl, m) ==
    LET back == IF pl = "White" THEN 0 ELSE 7
        kingside == file_of_sq(m.dest) > file_of_sq(m.orig)
        r_orig == SqAt(IF kingside THEN 7 ELSE 0, back)
        r_dest == SqAt(IF kingside THEN 5 ELSE 3, back)
    IN  [s \in Squares |->
            IF s = m.dest THEN Piece_make(pl, "King")
            ELSE IF s = r_dest THEN Piece_make(pl, "Rook")
            ELSE IF s \in {m.orig, r_orig} THEN "None"
            ELSE b[s]]

\* C12: making a castling move displaces the king from orig to dest and the
\* rook from the h-file to the f-file (king-side) or from the a-file to the
\* d-file (queen-side) on the mover's back rank, captures nothing and leaves
\* every other square as it was; unmake_move of a castling move reverses both
\* displacements.
C12_CastlingDisplacesTwo ==
    [][/\ (/\ Len(pos'.history) = Len(pos.history) + 1
           /\ ~panicked'
           /\ is_castle(last'.mov))
          => /\ piece_at_sq(pos, last'.mov.orig) = Piece_make(pos.turn, "King")
             /\ piece_at_sq(pos, last'.mov.dest) = "None"
             /\ pos'.board = CastlingDisplaced(pos.board, pos.turn, last'.mov)
             /\ pos'.white_piece_count = pos.white_piece_count
             /\ pos'.black_piece_count = pos.black_piece_count
       /\ (/\ Len(pos'.history) = Len(pos.history) - 1
           /\ pos.history[Len(pos.history)].kind = "Castling")
          => /\ pos.board = CastlingDisplaced(pos'.board, pos'.turn,
                                              pos.history[Len(pos.history)])
             /\ pos'.white_piece_count = pos.white_piece_count
             /\ pos'.black_piece_count = pos.black_piece_count
             /\ pos' = shadow[Len(shadow)]]_vars

\* Both sides have castled, one to each side of the board.
C12_Witness ==
    /\ last.op = "make"
    /\ ~panicked
    /\ is_castle(last.mov)
    /\ Len(pos.history) = 2
    /\ pos.history[1].kind = "Castling"
    /\ (pos.history[1].dest > pos.history[1].orig) /= (last.mov.dest > last.mov.orig)

PawnCount(p, pl) == popcnt(piece_bb(p, pl, "Pawn"))

\* C13: after making a promotion the destination holds the mover's promoted
\* piece, the origin is empty and the mover has one pawn fewer; unmake_move of
\* a promotion takes the promoted piece off the destination, puts the mover's
\* pawn back on the origin and puts back on the destination what was captured
\* there, if anything.
C13_Promotion ==
    [][/\ (/\ Len(pos'.history) = Len(pos.history) + 1
           /\ ~panicked'
           /\ is_promo(last'.mov))
          => LET m == last'.mov
             IN  /\ piece_at_sq(pos, m.orig) = Piece_make(pos.turn, "Pawn")
                 /\ promo_piece_type(m) \in PROMO_PIECES
                 /\ piece_at_sq(pos', m.dest) = Piece_make(pos.turn, promo_piece_type(m))
                 /\ piece_at_sq(pos', m.orig) = "None"
                 /\ PawnCount(pos', pos.turn) = PawnCount(pos, pos.turn) - 1
       /\ (/\ Len(pos'.history) = Len(pos.history) - 1
           /\ pos.history[Len(pos.history)].kind = "Promotion")
          => LET um == pos.history[Len(pos.history)]
                 us == pos'.turn
             IN  /\ piece_at_sq(pos, um.dest) = Piece_make(us, um.promo_piece_type)
                 /\ piece_at_sq(pos', um.orig) = Piece_make(us, "Pawn")
                 /\ piece_at_sq(pos', um.dest) =
                        (IF um.captured = "None" THEN "None"
                         ELSE Piece_make(other_player(us), um.captured))
                 /\ PawnCount(pos', us) = PawnCount(pos, us) + 1
                 /\ pos' = shadow[Len(shadow)]]_vars

\* A black pawn has promoted to a knight, capturing (a2xb1=N).
C13_Witness ==
    /\ last.op = "make"
    /\ ~panicked
    /\ is_promo(last.mov)
    /\ promo_piece_type(last.mov) = "Knight"
    /\ piece_at_sq(last.before, last.mov.dest) = "WhiteKnight"
    /\ piece_at_sq(pos, last.mov.dest) = "BlackKnight"

\* a7a8q from the position with a white pawn on a7: a white queen on a8.
PromotionToQueen ==
    /\ last.op = "make"
    /\ last.before = FenPromotion
    /\ last.mov = Mv(48, 56, "Promotion", "Queen")
    /\ piece_at_sq(pos, 56) = "WhiteQueen"

\* -------------------------------------------------- claims: legal_move

\* Square s lies strictly between the squares a and c of one rank, file or
\* diagonal.
StrictlyBetween(a, c, s) ==
    LET dx == file_of_sq(c) - file_of_sq(a)
        dy == rank_idx_of_sq(c) - rank_idx_of_sq(a)
        sx == file_of_sq(s) - file_of_sq(a)
        sy == rank_idx_of_sq(s) - rank_idx_of_sq(a)
    IN  /\ s /= a /\ s /= c
        /\ sx * dy = sy * dx
        /\ sx * dx >= 0 /\ sy * dy >= 0
        /\ sx * sx <= dx * dx /\ sy * sy <= dy * dy

\* On mailbox b a rook or queen of player by attacks sq along a rank or file,
\* or a bishop or queen of by along a diagonal.
SliderAttacks(b, sq, by) ==
    \E t \in Squares \ {sq} :
        LET dx == file_of_sq(t) - file_of_sq(sq)
            dy == rank_idx_of_sq(t) - rank_idx_of_sq(sq)
            clear == \A s \in Squares : StrictlyBetween(sq, t, s) => b[s] = "None"
        IN  \/ /\ b[t] \in {Piece_make(by, "Rook"), Piece_make(by, "Queen")}
               /\ dx = 0 \/ dy = 0
               /\ clear
            \/ /\ b[t] \in {Piece_make(by, "Bishop"), Piece_make(by, "Queen")}
               /\ dx = dy \/ dx = -dy
               /\ clear

\* The en passant captures the side to move could try.
EnPassantCandidates == {m \in generate_pseudolegal(pos) : is_en_passant(m)}

\* An enemy slider attacks the mover's king once the en passant capture m is
\* on the board: both pawns off their squares, the capturing pawn on dest.
EpExposesKing(m) ==
    SliderAttacks(board_after(pos.board, m, pos.turn), king_sq(pos, pos.turn),
                  other_player(pos.turn))

\* C14: legal_move on an en passant capture decides on the occupancy after
\* the capture: it returns false whenever an enemy rook or queen then attacks
\* the mover's king along a rank or file, or an enemy bishop or queen along a
\* diagonal, and true otherwise; b5c6 in 8/8/3p4/KPp4r/1R3p1k/8/4P1P1/8 w - c6
\* is rejected.
C14_EnPassantLegality ==
    /\ ~panicked =>
           \A m \in EnPassantCandidates : legal_move(pos, m) <=> ~EpExposesKing(m)
    /\ pos = FenEnPassantPinned => ~legal_move(pos, Mv(33, 42, "EnPassant", "None"))

\* An en passant capture that would uncover a rook's attack along the rank of
\* the two pawns, two moves into the game (f4xe3 or f4xg3 after a double push).
C14_Witness ==
    /\ ~panicked
    /\ Len(pos.history) = 1
    /\ \E m \in EnPassantCandidates : EpExposesKing(m) /\ ~legal_move(pos, m)

\* An en passant capture that is accepted.
EnPassantAccepted ==
    ~panicked /\ \E m \in EnPassantCandidates : ~EpExposesKing(m) /\ legal_move(pos, m)

\* ------------------------------------------------ claims: no panic

\* C15: make_move of a move that is legal in the position (en passant
\* captures, castling and promotions included) runs to completion: it does
\* not panic and none of its debug assertions fails.
C15_MakeMoveNeverPanics ==
    last.op = "make" => ~panicked

\* What holds of C15: only an en passant capture makes make_move panic, and
\* only in a build with debug assertions.
OnlyEnPassantPanics ==
    last.op = "make" /\ panicked => debug_assertions /\ is_en_passant(last.mov)

\* ----------------------------------------------- claims: make_uci_move

\* What make_uci_move(s) owes its caller on position b when the legal move m
\* has the UCI string s: that move made and returned.
UciMoveMade(b, m) ==
    /\ ~panicked
    /\ last.ret = "Some"
    /\ last.mov = m
    /\ Len(pos.history) = Len(b.history) + 1
    /\ pos.board = board_after(b.board, m, b.turn)
    /\ pos.turn = other_player(b.turn)

\* C16: make_uci_move(s) applies a move iff s is the UCI string of a legal
\* move of the position; then exactly that move is made and returned (the
\* history grows by one); otherwise None is returned and the position is
\* unchanged.
C16_MakeUciMove ==
    last.op = "uci" =>
        LET b == last.before
            hits == {m \in LegalMoves(b) : to_uci_string(m) = last.uci}
        IN  IF hits /= {}
            THEN \E m \in hits : UciMoveMade(b, m)
            ELSE ~panicked /\ last.ret = "None" /\ pos = b

\* What holds of C16: in a build without debug assertions, on a position
\* whose side to move is not in check, make_uci_move does what C16 says.
UciMoveOutOfCheck ==
    last.op = "uci" /\ ~debug_assertions /\ ~in_check(last.before) => C16_MakeUciMove

\* No two moves of generate_legal share a UCI string: the first match of
\* make_uci_move is the only one.
UciStringsDistinct ==
    \A m1, m2 \in generate_legal(pos) :
        to_uci_string(m1) = to_uci_string(m2) => m1 = m2

\* ------------------------------------------------------ claims: Engine

\* A step in which the session put one command at the end of the channel.
Enqueued == \E cmd \in Commands : rx' = Append(rx, cmd)

\* A step in which the oldest command left the channel.
Dequeued == rx /= << >> /\ rx' = Tail(rx)

\* C17: the worker handles commands strictly in the order they were put on
\* the channel, one at a time. The channel changes only by a command joining
\* at its end or by its oldest command leaving; the oldest command leaves
\* only while no handler is running, and the worker's effects in that step
\* (engine, responses) are those of the handler of that command; between two
\* such steps no response is sent and the engine changes only by the running
\* search returning.
C17_CommandsInOrder ==
    [][/\ (rx' = rx \/ Enqueued \/ Dequeued)
       /\ Dequeued =>
            /\ engine.state = "idle"
            /\ engine' = dispatch_command(engine, Head(rx), debug_assertions).engine
            /\ tx' = dispatch_command(engine, Head(rx), debug_assertions).sent
       /\ ~Dequeued =>
            /\ tx' = tx
            /\ \/ engine' = engine
               \/ engine.state = "searching" /\ engine' = command_go_return(engine)]_vars

\* A search is in flight while two different commands wait in order.
C17_Witness ==
    /\ engine.state = "searching"
    /\ Len(rx) >= 2
    /\ rx[1] /= rx[2]

\* A step in which the worker took a position command off the channel.
DequeuedSetPosition == Dequeued /\ Head(rx)[1] = "SetPosition"

\* C18: when the worker handles a position command whose FEN does not
\* parse, whatever move strings come with it, the engine's position after
\* the step is the one before it, and the responses of the step are exactly
\* one InvalidPosition carrying the error from_fen returned.
C18_InvalidFenKeepsPosition ==
    [][(DequeuedSetPosition /\ ~from_fen(Head(rx)[2]).ok) =>
            /\ engine'.pos = engine.pos
            /\ engine'.state = "idle"
            /\ tx' = <<Resp_InvalidPosition(from_fen(Head(rx)[2]).err)>>]_vars

\* A position command with a malformed board field was answered while the
\* position installed by an earlier command stayed.
C18_Witness ==
    /\ tx = <<Resp_InvalidPosition("board")>>
    /\ engine.pos = Some(FenCastling)
    /\ engine.state = "idle"

\* The error of a malformed side-to-move field was reported as well.
C18_WitnessTurn ==
    /\ tx = <<Resp_InvalidPosition("turn")>>
    /\ engine.pos /= Some(StartPos)
    /\ engine.pos /= None

\* The position reached by making the strings of a move list in turn up to
\* the first one that is the UCI string of no legal move, and whether there
\* was such a string.
RECURSIVE UpToFirstFailure(_, _)
UpToFirstFailure(p, moves) ==
    IF moves = << >>
    THEN [pos |-> p, failed |-> FALSE]
    ELSE IF Head(moves) \notin {to_uci_string(m) : m \in LegalMoves(p)}
         THEN [pos |-> p, failed |-> TRUE]
         ELSE CHOOSE out \in
                {UpToFirstFailure(r.pos, Tail(moves))
                    : r \in {make_uci_move(p, Head(moves), FALSE)}} : TRUE

\* C19: when the worker handles a position command whose FEN parses and
\* whose move list holds a string that is no legal move, the position it
\* installs is the one reached just before the first such string, none of
\* the strings after it having been applied, and the responses of the step
\* are exactly one InvalidMove.
C19_PartialApplication ==
    [][(/\ DequeuedSetPosition
        /\ from_fen(Head(rx)[2]).ok
        /\ UpToFirstFailure(from_fen(Head(rx)[2]).pos, Head(rx)[3]).failed) =>
            /\ engine'.pos = Some(UpToFirstFailure(from_fen(Head(rx)[2]).pos, Head(rx)[3]).pos)
            /\ tx' = <<Resp_InvalidMove>>]_vars

\* The installed position is never one in which a move was made after a
\* string that failed: Black has not castled after "zz".
C19_NothingAppliedAfterFailure ==
    ~(/\ tx = <<Resp_InvalidMove>>
      /\ engine.pos /= None
      /\ piece_at_sq(engine.pos[1], 58) = "BlackKing")

\* One position command is never answered by two InvalidMove responses.
C19_OneInvalidMove == tx /= <<Resp_InvalidMove, Resp_InvalidMove>>

\* C20: a Stop sent while the search of a Go is in flight interrupts it and
\* the worker carries on. When the worker takes a Stop off the channel it
\* does not panic: it is back at the top of its loop, no search running,
\* the position returned by the search in place, ready for the commands
\* that follow.
C20_StopInterruptsSearch ==
    [][(Dequeued /\ Head(rx) = <<"Stop">>) =>
            /\ engine'.state = "idle"
            /\ engine'.pos /= None]_vars

\* While a search is in flight the worker takes nothing off the channel, a
\* Stop included: the channel only grows.
C20_SearchIgnoresChannel ==
    [][engine.state = "searching" => (rx' = rx \/ Enqueued)]_vars

\* A Stop waits on the channel while a search is in flight.
C20_StopWaitsDuringSearch ==
    engine.state = "searching" /\ rx /= << >> /\ rx[1] = <<"Stop">>

\* C21: Quit ends the worker cleanly. When the worker takes a Quit off the
\* channel its handler does not panic, and once the worker has ended no
\* command that is still on the channel is handled.
C21_QuitTerminatesCleanly ==
    [][/\ (Dequeued /\ Head(rx) = <<"Quit">>) => engine'.state /= "panicked"
       /\ engine.state = "panicked" => (engine' = engine /\ tx' = tx /\ ~Dequeued)]_vars

\* A worker that has gone handles nothing more.
C21_NothingHandledAfterEnd ==
    [][engine.state = "panicked" => (engine' = engine /\ tx' = tx /\ ~Dequeued)]_vars

\* A bestmove response is among the responses in r.
HasBestMove(r) == \E i \in 1..Len(r) : r[i][1] = "BestMove"

\* C22: every Go is answered by a bestmove. By the time the search started
\* by a Go returns and the handler of the Go ends, the responses the worker
\* has sent for that command hold a bestmove response.
C22_GoAnsweredByBestMove ==
    [][(engine.state = "searching" /\ engine'.state = "idle") => HasBestMove(tx')]_vars

\* The worker never sends a bestmove response, for a Go or for anything.
C22_NoBestMoveEverSent == ~HasBestMove(tx)

\* C23: when the worker handles a uci command the responses of the step are
\* exactly three, in this order: identity, option list, uciok; when it
\* handles an isready command they are exactly one readyok. Neither changes
\* the engine.
C23_UciAndIsReadyResponses ==
    [][/\ (Dequeued /\ Head(rx) = <<"Uci">>) =>
            (tx' = <<Resp_Id, Resp_OptionsList, Resp_Uciok>> /\ engine' = engine)
       /\ (Dequeued /\ Head(rx) = <<"IsReady">>) =>
            (tx' = <<Resp_ReadyOk>> /\ engine' = engine)]_vars

\* A uci command has been answered, with an isready waiting behind it.
C23_Witness ==
    /\ tx = <<Resp_Id, Resp_OptionsList, Resp_Uciok>>
    /\ engine.state = "idle"
    /\ rx /= << >>
    /\ Head(rx) = <<"IsReady">>

\* An isready command has been answered.
C23_WitnessIsReady == tx = <<Resp_ReadyOk>> /\ engine.state = "idle"

\* ------------------------------------------------------- claims: perft

\* The number of leaf nodes of the legal-move tree of p at depth d.
RECURSIVE PerftTree(_, _)
RECURSIVE SumLeaves(_, _, _)
PerftTree(p, d) ==
    IF d = 0
    THEN 1
    ELSE CHOOSE n \in {SumLeaves(p, ms, d) : ms \in {LegalMoves(p)}} : TRUE

SumLeaves(p, ms, d) ==
    IF ms = {}
    THEN 0
    ELSE CHOOSE n \in
            {PerftTree(make_move(p, m, FALSE).pos, d - 1) + SumLeaves(p, ms \ {m}, d)
                : m \in {CHOOSE x \in ms : TRUE}} : TRUE

\* C24: for every entry of the table the perft driver returns the number of
\* leaf nodes of the legal-move tree of the position at the depth: the
\* number of legal moves at depth 1, the sum over the moves of the counts
\* one level down at depth 2 and more.
C24_PerftCountsLeaves ==
    last.op = "perft" => last.ret = PerftTree(pos, last.depth)

\* At depth 1, the side to move not being in check, the driver returns the
\* number of legal moves: 20 in the starting position.
C24_PerftDepthOne ==
    (last.op = "perft" /\ last.depth = 1 /\ ~in_check(pos)) =>
        /\ last.ret = Cardinality(LegalMoves(pos))
        /\ pos = StartPos => last.ret = 20

\* At depth 2 and more the driver returns 0.
C24_PerftDeeperIsZero ==
    (last.op = "perft" /\ last.depth >= 2) => last.ret = 0

\* Somewhere the driver was asked for a depth 2 count that is not 0.
C24_DepthTwoAsked ==
    last.op = "perft" /\ last.depth = 2 /\ PerftTree(pos, 2) > 0

\* ----------------------------------------------------- claims: Bitboard

\* What holds of the items yielded so far: they ascend strictly, they are
\* set bits of the original word, the iterated word holds the set bits not
\* yielded yet; and once the iterator has ended every set bit has been
\* yielded, so the items number the pop-count of the original word.
BitboardItems ==
    LET y == bitboard.yields
    IN  /\ \A i, j \in 1..Len(y) : i < j => y[i] < y[j]
        /\ \A i \in 1..Len(y) : y[i] \in bitboard.orig
        /\ bitboard.it = bitboard.orig \ {y[i] : i \in 1..Len(y)}
        /\ Len(y) <= popcnt(bitboard.orig)
        /\ bitboard.ended =>
              /\ {y[i] : i \in 1..Len(y)} = bitboard.orig
              /\ Len(y) = popcnt(bitboard.orig)
        /\ (bitboard.orig = {} /\ bitboard.ended) => (y = << >> /\ bsf(bitboard.it) = 64)

\* C25: iterating a Bitboard yields the indices of its set bits in strictly
\* ascending order, each once, and then ends with as many items as the
\* pop-count of the word (none for the empty word, whose bit scan gives 64);
\* the word the iterator was copied from keeps its value, and an iterator
\* that has ended stays ended.
C25_BitboardIteration ==
    /\ []BitboardItems
    /\ [][/\ bitboard'.orig = bitboard.orig
          /\ bitboard.ended => bitboard' = bitboard]_vars

\* A word with bit 63 and MaxBits bits has been iterated to the end.
C25_Witness ==
    /\ bitboard.ended
    /\ 63 \in bitboard.orig
    /\ Len(bitboard.yields) >= 3

\* The empty word has been iterated to the end.
C25_WitnessEmpty == bitboard.ended /\ bitboard.orig = {} /\ PositionIdle

\* ------------------------------------------- claims: Position, continued

\* The four castling rights.
CastlingRightNames ==
    {"white_kingside", "white_queenside", "black_kingside", "black_queenside"}

\* C26: castling rights never increase under make_move. In every step that
\* is a make_move, each of the four rights that the position did not have
\* before the call it does not have after it; so over any run of make_move
\* calls a right once lost stays lost.
C26_CastlingRightsNeverIncrease ==
    [][last'.op = "make" =>
         \A r \in CastlingRightNames :
            pos'.castling_rights[r] => pos.castling_rights[r]]_vars

\* A make_move was made in a position that had lost a right and kept
\* another: the lost right is still lost, the other one still there.
C26_Witness ==
    /\ last.op = "make"
    /\ ~panicked
    /\ \E r \in CastlingRightNames :
          ~last.before.castling_rights[r] /\ ~pos.castling_rights[r]
    /\ \E r \in CastlingRightNames :
          last.before.castling_rights[r] /\ pos.castling_rights[r]

\* A make_move took a right away.
C26_WitnessLost ==
    /\ last.op = "make"
    /\ ~panicked
    /\ \E r \in CastlingRightNames :
          last.before.castling_rights[r] /\ ~pos.castling_rights[r]

\* The move m made in position p moved a pawn or captured a piece.
PawnMoveOrCapture(p, m) ==
    \/ type_of(piece_at_sq(p, m.orig)) = "Pawn"
    \/ piece_at_sq(p, m.dest) /= "None"
    \/ is_en_passant(m)

\* C27: after make_move(m), half_move_clock is 0 if m moved a pawn or
\* captured a piece (en passant and promotions included) and is one more than
\* before the call otherwise (castling included).
C27_HalfMoveClock ==
    last.op = "make" =>
        pos.half_move_clock =
            IF PawnMoveOrCapture(last.before, last.mov)
            THEN 0
            ELSE last.before.half_move_clock + 1

\* The same of the calls of make_move that returned.
C27_HalfMoveClockOnReturn ==
    (last.op = "make" /\ ~panicked) =>
        pos.half_move_clock =
            IF PawnMoveOrCapture(last.before, last.mov)
            THEN 0
            ELSE last.before.half_move_clock + 1

\* make_move leaves the clock wrong only where it panicked on an en passant
\* capture.
C27_OnlyEnPassantPanicDiffers ==
    (last.op = "make" /\ ~C27_HalfMoveClock) =>
        (panicked /\ debug_assertions /\ is_en_passant(last.mov))

\* A piece that is no pawn captured while the clock was running: the clock
\* is back at 0.
C27_CaptureResets ==
    /\ last.op = "make"
    /\ ~panicked
    /\ type_of(piece_at_sq(last.before, last.mov.orig)) /= "Pawn"
    /\ piece_at_sq(last.before, last.mov.dest) /= "None"
    /\ last.before.half_move_clock > 0
    /\ pos.half_move_clock = 0

\* Castling while the clock was running: the clock went on.
C27_CastlingCounts ==
    /\ last.op = "make"
    /\ ~panicked
    /\ is_castle(last.mov)
    /\ last.before.half_move_clock > 0
    /\ pos.half_move_clock = last.before.half_move_clock + 1

\* An en passant capture that returned: the clock is at 0.
C27_EnPassantResets ==
    last.op = "make" /\ ~panicked /\ is_en_passant(last.mov) /\ pos.half_move_clock = 0

\* The moves on the history that Black made: shadow holds, for each of
\* them, the position it was made in.
BlackMovesOnHistory == Cardinality({i \in 1..Len(shadow) : shadow[i].turn = "Black"})

\* The full-move counter the sequence of calls started from.
InitialMoveNumber == IF shadow = << >> THEN pos.move_number ELSE shadow[1].move_number

\* What C28 says of one call: a make_move or an unmake_move that returns Some
\* flips turn and lengthens or shortens the history by one; an unmake_move
\* that returns None leaves both.
TurnAndHistoryStep(made, unmade) ==
    /\ made =>
          /\ pos'.turn = other_player(pos.turn)
          /\ Len(pos'.history) = Len(pos.history) + 1
    /\ unmade =>
          /\ pos'.turn = other_player(pos.turn)
          /\ Len(pos'.history) = Len(pos.history) - 1
    /\ (last'.op = "unmake" /\ last'.ret = "None") =>
          /\ pos'.turn = pos.turn
          /\ pos'.history = pos.history

\* C28: over any sequence of make_move and unmake_move calls from a position
\* with empty history, move_number is the initial move_number plus the number
\* of Black moves on the history, and the history is as long as the makes
\* less the successful unmakes (the length of shadow); every make_move and
\* every unmake_move that returns Some flips turn.
C28_MoveNumberTurnHistory ==
    /\ [](/\ pos.move_number = InitialMoveNumber + BlackMovesOnHistory
          /\ Len(pos.history) = Len(shadow))
    /\ [][TurnAndHistoryStep(last'.op = "make",
                             last'.op = "unmake" /\ last'.ret = "Some")]_vars

\* The same of the calls that returned.
C28_MoveNumberTurnHistoryOnReturn ==
    /\ [](/\ pos.move_number = InitialMoveNumber + BlackMovesOnHistory
          /\ Len(pos.history) = Len(shadow))
    /\ [][TurnAndHistoryStep(last'.op = "make" /\ ~panicked',
                             last'.op = "unmake" /\ last'.ret = "Some" /\ ~panicked')]_vars

\* A move of White has been unmade and the move of Black before it is on
\* the history: the counter is one above where it started.
C28_BlackMoveCounted ==
    /\ last.op = "unmake"
    /\ last.ret = "Some"
    /\ ~panicked
    /\ Len(pos.history) = 1
    /\ shadow[1].turn = "Black"
    /\ pos.turn = "White"
    /\ pos.move_number = shadow[1].move_number + 1

\* An unmake_move found the history empty.
C28_UnmakeOnEmptyHistory ==
    last.op = "unmake" /\ last.ret = "None" /\ pos.history = << >>

\* The square of the pawn an en passant capture to dest takes: one rank
\* behind dest, seen from the mover us.
BehindDest(us, dest) == dest - pawn_push(us)

\* Board b2 is board b1 with the en passant capture orig-dest of us made.
EnPassantMade(b1, b2, us, orig, dest) ==
    /\ b2[orig] = "None"
    /\ b2[dest] = Piece_make(us, "Pawn")
    /\ b1[BehindDest(us, dest)] = Piece_make(other_player(us), "Pawn")
    /\ b2[BehindDest(us, dest)] = "None"
    /\ b1[dest] = "None"
    /\ \A sq \in Squares \ {orig, dest, BehindDest(us, dest)} : b2[sq] = b1[sq]

\* What C29 says of one call: a make_move of an en passant capture takes
\* the pawn behind dest and nothing else; the unmake_move of one puts it
\* back behind dest.
EnPassantStep(made, unmade) ==
    /\ made =>
          EnPassantMade(pos.board, pos'.board, pos.turn, last'.mov.orig, last'.mov.dest)
    /\ unmade =>
          LET um == pos.history[Len(pos.history)]
          IN  is_en_passant(um) =>
                 EnPassantMade(pos'.board, pos.board, pos'.turn, um.orig, um.dest)

\* C29: making an en passant capture removes the enemy pawn from the square
\* one rank behind dest, leaves the mover's pawn on dest and orig empty, and
\* removes nothing else; unmake_move puts the captured pawn back on that
\* square behind dest, not on dest.
C29_EnPassantCapture ==
    [][EnPassantStep(last'.op = "make" /\ is_en_passant(last'.mov),
                     last'.op = "unmake" /\ last'.ret = "Some")]_vars

\* The same of the calls that returned.
C29_EnPassantCaptureOnReturn ==
    [][EnPassantStep(last'.op = "make" /\ is_en_passant(last'.mov) /\ ~panicked',
                     last'.op = "unmake" /\ last'.ret = "Some" /\ ~panicked')]_vars

\* An en passant capture has been made and unmade: the captured pawn is
\* back behind the square the capturing pawn went to, which is empty.
C29_EnPassantUnmade ==
    /\ last.op = "unmake"
    /\ last.ret = "Some"
    /\ pos.ep_square /= {}
    /\ \E sq \in pos.ep_square :
          /\ pos.board[sq] = "None"
          /\ pos.board[BehindDest(pos.turn, sq)] = Piece_make(other_player(pos.turn), "Pawn")
    /\ pos.history = << >>

\* The pseudo-legal king moves of the side to move that are not castling.
KingSteps(p) ==
    {m \in generate_pseudolegal(p) :
        type_of(piece_at_sq(p, m.orig)) = "King" /\ ~is_castle(m)}

\* An enemy rook, bishop or queen attacks the destination of the king move m
\* once the king has left its origin square.
SliderAttacksBehindKing(p, m) ==
    LET them == other_player(p.turn)
        occ == occupied(p) \ {m.orig}
    IN  \/ (rook_moves(occ, m.dest) \cap sliding_piece_bb(p, them)) /= {}
        \/ (bishop_moves(occ, m.dest) \cap diagonal_piece_bb(p, them)) /= {}

\* C30: for a king move that is not castling, legal_move decides the attack
\* on dest with the king's origin square taken out of the occupancy: it
\* returns false for every king move to a square that an enemy rook, bishop
\* or queen attacks once the king has left its origin, a step back along the
\* ray of a check included.
C30_KingMoveOccupancy ==
    ~panicked =>
        \A m \in KingSteps(pos) :
            SliderAttacksBehindKing(pos, m) => ~legal_move(pos, m)

\* What legal_move does decide on: the attackers of dest with the king still
\* standing on its origin square.
C30_KingMoveCurrentOccupancy ==
    ~panicked =>
        \A m \in KingSteps(pos) :
            legal_move(pos, m) <=>
                (attackers_to(pos, m.dest, occupied(pos))
                    \cap get_occupied_player(pos, other_player(pos.turn))) = {}

\* legal_move accepts a king move onto a square a slider attacks from behind
\* the king only when the king is in check from that slider.
C30_OnlyInCheck ==
    (~panicked /\ ~in_check(pos)) =>
        \A m \in KingSteps(pos) :
            SliderAttacksBehindKing(pos, m) => ~legal_move(pos, m)

\* ------------------------------------------------------- claims: pins

\* On mailbox b the piece of us on sq is pinned to the king of us on ksq: an
\* enemy rook or queen on the king's rank or file, or an enemy bishop or
\* queen on one of its diagonals, has that piece and no other between
\* itself and the king.
PinnedToKing(b, sq, us, ksq) ==
    \E t \in Squares \ {ksq} :
        LET dx == file_of_sq(t) - file_of_sq(ksq)
            dy == rank_idx_of_sq(t) - rank_idx_of_sq(ksq)
            them == other_player(us)
        IN  /\ \/ /\ b[t] \in {Piece_make(them, "Rook"), Piece_make(them, "Queen")}
                  /\ dx = 0 \/ dy = 0
               \/ /\ b[t] \in {Piece_make(them, "Bishop"), Piece_make(them, "Queen")}
                  /\ dx = dy \/ dx = -dy
            /\ {s \in Squares : StrictlyBetween(ksq, t, s) /\ b[s] /= "None"} = {sq}

\* Three squares on one rank, file or diagonal.
Collinear(a, b, c) ==
    \/ file_of_sq(a) = file_of_sq(b) /\ file_of_sq(b) = file_of_sq(c)
    \/ rank_idx_of_sq(a) = rank_idx_of_sq(b) /\ rank_idx_of_sq(b) = rank_idx_of_sq(c)
    \/ /\ file_of_sq(a) - rank_idx_of_sq(a) = file_of_sq(b) - rank_idx_of_sq(b)
       /\ file_of_sq(b) - rank_idx_of_sq(b) = file_of_sq(c) - rank_idx_of_sq(c)
    \/ /\ file_of_sq(a) + rank_idx_of_sq(a) = file_of_sq(b) + rank_idx_of_sq(b)
       /\ file_of_sq(b) + rank_idx_of_sq(b) = file_of_sq(c) + rank_idx_of_sq(c)

\* The pseudo-legal moves of the side to move by a piece that is not the
\* king, en passant captures left out.
PieceMoves(p) ==
    {m \in generate_pseudolegal(p) :
        type_of(piece_at_sq(p, m.orig)) /= "King" /\ ~is_en_passant(m)}

\* C31: for a move of a piece that is not the king and that is no en passant
\* capture, legal_move returns true if and only if the piece is not pinned
\* to its own king, or it is pinned and orig, dest and the king's square lie
\* on one rank, file or diagonal.
C31_PinnedPieceMoves ==
    ~panicked =>
        \A m \in PieceMoves(pos) :
            legal_move(pos, m) <=>
                \/ ~PinnedToKing(pos.board, m.orig, pos.turn, king_sq(pos, pos.turn))
                \/ Collinear(m.orig, m.dest, king_sq(pos, pos.turn))

\* A pinned piece has a move along the line of the pin that legal_move
\* accepts and a move off the line that it refuses, after a make_move.
C31_Witness ==
    /\ ~panicked
    /\ last.op = "make"
    /\ \E m \in PieceMoves(pos) :
          /\ PinnedToKing(pos.board, m.orig, pos.turn, king_sq(pos, pos.turn))
          /\ legal_move(pos, m)
    /\ \E m \in PieceMoves(pos) :
          /\ PinnedToKing(pos.board, m.orig, pos.turn, king_sq(pos, pos.turn))
          /\ ~legal_move(pos, m)

\* ------------------------------------- claims: OrderedMoves, phase by phase

\* C32: segment reset. The buffer is empty while the phase is Pre and the
\* segment always starts at index 0; whenever load_next_phase calls hooks of
\* the phase it enters, nothing of an earlier phase is in the buffer the hooks
\* push to (HashTable finds the buffer empty, the other phases clear it), and
\* after the call the buffer holds exactly the entries the hooks of the new
\* phase pushed, none of them yielded.
C32_SegmentReset ==
    /\ [](om.phase = "Pre" => om.buf = << >>)
    /\ [](om.segment_start = 0)
    /\ [][walk'.hooks /= walk.hooks =>
            /\ om'.phase = "HashTable" => om.buf = << >>
            /\ om'.segment_start = 0
            /\ Len(om'.buf) = Len(ExpectedEntries(loader, om'.phase))
            /\ \A i \in DOMAIN om'.buf :
                   /\ om'.buf[i].mv = ExpectedEntries(loader, om'.phase)[i].mv
                   /\ ~om'.buf[i].yielded]_vars

\* The captures loaded over a hash phase all of whose entries were yielded.
C32_Witness ==
    /\ om.phase = "GoodCaptures"
    /\ Len(om.buf) = 1
    /\ Len(loader.hash) = 2
    /\ Len(walk.yields) = 2
    /\ walk.hooks = <<"load_hash", "load_captures", "score_captures">>

\* A call of load_next_phase that returned true and entered the phase ph.
Entered(ph) ==
    /\ walk'.returned = Append(walk.returned, TRUE)
    /\ om'.phase = ph

\* C33: hook dispatch. A successful load_next_phase that enters HashTable
\* calls load_hash once and no other hook; one that enters GoodCaptures calls
\* load_captures once and then score_captures once, and score_captures is
\* handed exactly the entries load_captures pushed: the scores the Loader
\* writes land on those entries, one each, in the order of the push.
C33_HookDispatch ==
    [][(Entered("HashTable") =>
            (/\ walk'.hooks = walk.hooks \o <<"load_hash">>
             /\ om'.buf = ExpectedEntries(loader, "HashTable")))
       /\ (Entered("GoodCaptures") =>
            (/\ walk'.hooks = walk.hooks \o <<"load_captures", "score_captures">>
             /\ Len(om'.buf) = Len(loader.captures)
             /\ \A i \in DOMAIN om'.buf :
                    /\ om'.buf[i].mv = loader.captures[i]
                    /\ om'.buf[i].score = loader.scores[i]))]_vars

\* Two captures loaded and scored differently by the Loader.
C33_Witness ==
    /\ om.phase = "GoodCaptures"
    /\ Len(om.buf) = 2
    /\ om.buf[1].score = INF_N
    /\ om.buf[2].score = INF_P
    /\ walk.hooks = <<"load_hash", "load_captures", "score_captures">>
    /\ walk.yields = << >>

\* The phases after GoodCaptures and the hook that loads each of them.
LaterPhases == {"EqualCaptures", "Killers", "Quiet", "BadCaptures", "Underpromotions"}

HookOf(ph) ==
    CASE ph \in {"EqualCaptures", "BadCaptures"} -> "load_captures"
      [] ph = "Killers" -> "load_killers"
      [] ph = "Quiet" -> "load_quiets"
      [] ph = "Underpromotions" -> "load_promotions"

\* C34: entering EqualCaptures, Killers, Quiet, BadCaptures or Underpromotions
\* clears the buffer and then calls the loader hook of that phase.
C34_LaterPhasesLoad ==
    [][\A ph \in LaterPhases :
           Entered(ph) => walk'.hooks = walk.hooks \o <<HookOf(ph)>>]_vars

\* What the code does on entering those phases: it clears the buffer, calls
\* no hook and leaves the buffer empty.
C34_LaterPhasesOnlyClear ==
    /\ [](om.phase \in LaterPhases => om.buf = << >>)
    /\ [][\A ph \in LaterPhases :
              Entered(ph) => walk'.hooks = walk.hooks /\ om'.buf = << >>]_vars

\* Killers entered after captures were loaded.
C34_KillersEntered ==
    /\ om.phase = "Killers"
    /\ loader.captures /= << >>
    /\ walk.hooks = <<"load_hash", "load_captures", "score_captures">>

\* The yields of phase ph, in the order they were made.
YieldedIn(ph) ==
    SelectSeq(walk.yields, LAMBDA y : y.phase = ph)

\* The band of scores each capture phase yields.
InBand(ph, score) ==
    CASE ph = "GoodCaptures" -> score > Score_zero
      [] ph = "EqualCaptures" -> score = Score_zero
      [] ph = "BadCaptures" -> score < Score_zero

\* C35: once the iterator of a capture phase is exhausted, the moves it
\* yielded are exactly the captures the Loader pushed whose score lies in the
\* band of the phase (GoodCaptures above zero, EqualCaptures zero,
\* BadCaptures below zero), each once, in descending order of score.
C35_CapturesYieldedByBand ==
    \A ph \in {"GoodCaptures", "EqualCaptures", "BadCaptures"} :
        (om.phase = ph /\ walk.iter /= "none" /\ walk.exhausted) =>
            LET ys == YieldedIn(ph)
            IN  /\ Len(ys) = Cardinality({i \in DOMAIN loader.captures :
                                             InBand(ph, loader.scores[i])})
                /\ \A k \in DOMAIN ys :
                       /\ ys[k].index \in DOMAIN loader.captures
                       /\ ys[k].mv = loader.captures[ys[k].index]
                       /\ InBand(ph, loader.scores[ys[k].index])
                /\ \A j, k \in DOMAIN ys :
                       j < k => ys[j].index /= ys[k].index /\ ys[j].score >= ys[k].score

\* What the code does: only the iterator of HashTable ever yields a move.
C35_OnlyHashTableYields ==
    \A i \in DOMAIN walk.yields : walk.yields[i].phase = "HashTable"

\* The iterator of GoodCaptures exhausted over a capture scored above zero.
C35_GoodCaptureNeverYielded ==
    /\ om.phase = "GoodCaptures"
    /\ walk.iter = "Empty"
    /\ walk.exhausted
    /\ \E i \in DOMAIN om.buf : om.buf[i].score > Score_zero /\ ~om.buf[i].yielded

\* ------------------------------------------ claims: SelectionSort, drained

\* The entries of the current segment that were not yielded.
NotYielded(o) == {i \in current_segment(o) : ~o.buf[i].yielded}

\* C36: segment exhaustion. The inner iterator returns None only when every
\* entry of the segment has its yielded flag set, whatever the scores of the
\* entries are (INF_N, ZERO, INF_P, ties), and so a drained segment has
\* yielded every entry that was not yielded before.
C36_NoneOnlyWhenAllYielded ==
    walk.exhausted => NotYielded(om) = {}

\* What the code does: the entries left when next returns None are the ones
\* whose score is INF_N, which the scan for a score above INF_N never finds.
C36_OnlyINF_NLeft ==
    /\ walk.exhausted => \A i \in NotYielded(om) : om.buf[i].score = INF_N
    /\ \A i \in DOMAIN walk.yields : walk.yields[i].score > INF_N

\* A segment of three entries drained after two yields: the entry scored
\* INF_N is left behind.
C36_DrainedShort ==
    /\ walk.exhausted
    /\ Len(om.buf) = 3
    /\ Len(walk.yields) = 2
    /\ Cardinality(NotYielded(om)) = 1

\* ------------------------------------------- claims: the engine's position

\* A step in which the worker took a go command off the channel.
DequeuedGo == Dequeued /\ Head(rx)[1] = "Go"

\* C37: the engine holds a position whenever a command is dispatched: the
\* position is out of the engine only while the search runs, when nothing is
\* dispatched, and comes back when the search returns; so a go command
\* always finds a position, starts a search on it and never reaches the
\* unreachable branch of command_go.
C37_PositionPresentAtDispatch ==
    /\ [](engine.state = "idle" => engine.pos /= None /\ engine.search = None)
    /\ [](engine.state = "searching" => engine.pos = None /\ engine.search /= None)
    /\ [][/\ Dequeued => engine.pos /= None
          /\ DequeuedGo => (/\ engine'.state = "searching"
                            /\ engine'.search = engine.pos)
          /\ (engine.state = "searching" /\ engine'.state /= "searching") =>
                (engine'.state = "idle" /\ engine'.pos /= None)]_vars

\* A search runs on a position set by a position command, the next go
\* command waiting on the channel.
C37_Witness ==
    /\ engine.state = "searching"
    /\ engine.search /= None
    /\ engine.search /= Some(StartPos)
    /\ rx /= << >>
    /\ Head(rx)[1] = "Go"

\* ---------------------------------------------- claims: the cached state

\* C38: cached state consistency. After any sequence of make_move and
\* unmake_move calls the cached state of the position (the checkers of the
\* side to move, the blockers and the pinners of each player) is the state
\* derived afresh from the board, and every checker is a piece of the enemy
\* that attacks the king of the side to move.
C38_CachedStateConsistent ==
    /\ pos.state = State_from_position(pos)
    /\ \A sq \in checkers(pos) :
           /\ sq \in get_occupied_player(pos, other_player(pos.turn))
           /\ sq \in attackers_to(pos, king_sq(pos, pos.turn), occupied(pos))

\* A move has been made that gives check: the cached checkers are the
\* checking pieces.
C38_Witness ==
    /\ last.op = "make"
    /\ ~panicked
    /\ checkers(pos) /= {}

\* A move has been unmade and the state put back holds a pinner.
C38_WitnessUnmade ==
    /\ last.op = "unmake"
    /\ last.ret = "Some"
    /\ \E pl \in Players : pos.state.pinners[pl] /= {}

\* ------------------------------------------- claims: iterators of a phase

\* C39: resuming a phase. Creating or dropping an iterator leaves the buffer
\* and its yielded flags as they are, and the flag of every entry yielded in
\* the current phase stays set; so an iterator created over a phase without
\* load_next_phase in between never yields an entry an earlier iterator over
\* that phase yielded, and all the iterators over one phase together yield
\* each buffer entry at most once.
C39_ResumedPhase ==
    /\ [](\A i, j \in DOMAIN walk.yields :
              (walk.yields[i].phase = walk.yields[j].phase
                 /\ i < j
                 /\ walk.yields[j].resumed)
                  => walk.yields[i].index /= walk.yields[j].index)
    /\ [](\A i \in DOMAIN walk.yields :
              walk.yields[i].phase = om.phase => om.buf[walk.yields[i].index].yielded)
    /\ [](Cardinality({walk.yields[i].index : i \in {k \in DOMAIN walk.yields :
                                                       walk.yields[k].phase = om.phase}})
             = Len(YieldedIn(om.phase)))
    /\ [][walk'.iter /= walk.iter => om' = om]_vars

\* A second iterator over the hash phase yielded the entry the first one,
\* dropped early, had left.
C39_Witness ==
    /\ om.phase = "HashTable"
    /\ Len(walk.yields) = 2
    /\ ~walk.yields[1].resumed
    /\ walk.yields[2].resumed
    /\ walk.yields[1].index /= walk.yields[2].index

\* ------------------------------------------------------- claims: pieces

\* The values of Piece other than Piece::None.
PieceValues ==
    {"WhitePawn", "WhiteKnight", "WhiteBishop", "WhiteRook", "WhiteQueen", "WhiteKing",
     "BlackPawn", "BlackKnight", "BlackBishop", "BlackRook", "BlackQueen", "BlackKing"}

\* C40: Piece construction round-trips. For every player pl and piece type t
\* other than None, make(pl, t) is a piece whose player is pl and whose type
\* is t; for every piece p other than Piece::None, make(p.player(),
\* p.type_of()) is p, which holds in particular of every piece standing on
\* the board of the position; make(pl, None) is Piece::None; and player()
\* panics for Piece::None and for no other piece.
C40_PieceRoundTrips ==
    /\ \A pl \in Players, t \in PieceTypes :
           /\ Piece_make(pl, t) \in PieceValues
           /\ player(Piece_make(pl, t)) = pl
           /\ type_of(Piece_make(pl, t)) = t
    /\ \A p \in PieceValues :
           /\ type_of(p) \in PieceTypes
           /\ Piece_make(player(p), type_of(p)) = p
    /\ \A sq \in 0..63 :
           LET p == piece_at_sq(pos, sq)
           IN  p /= "None" => p \in PieceValues /\ Piece_make(player(p), type_of(p)) = p
    /\ \A pl \in Players : Piece_make(pl, "None") = "None"
    /\ type_of("None") = "None"
    /\ \A p \in PieceValues \cup {"None"} : (player(p) = "panic") <=> (p = "None")

\* A pawn has promoted: make_move put Piece::make(us, promoted type) on the
\* destination square.
C40_Witness ==
    /\ last.op = "make"
    /\ ~panicked
    /\ is_promo(last.mov)
    /\ piece_at_sq(pos, last.mov.dest)
          = Piece_make(last.before.turn, promo_piece_type(last.mov))
    /\ player(piece_at_sq(pos, last.mov.dest)) = last.before.turn

====
